---------------------------- MODULE Spec2Model ----------------------------
(***************************************************************************)
(* A model of go-winacl: the access-check engine (AccessCheck,             *)
(* aceAppliesToToken, MapGenericAccess), the integrity-level policy        *)
(* evaluator (IntegrityLevel.CheckAccess) and the canonical string of a    *)
(* SID (SID.String).                                                       *)
(*                                                                         *)
(* Representation.  A uint32 bit mask is the set of the positions (0..31)  *)
(* of its set bits: & is \cap, | is \cup, &^ is \, == 0 is = {}.  The      *)
(* canonical string "S-r-a-s1-...-sn" of a SID is the sequence             *)
(* <<r, a, s1, ..., sn>> of the numbers it prints between the dashes (the  *)
(* decimal fields hold no dash, so two strings are equal exactly when      *)
(* these sequences are); the empty string is <<>>.  An integrity level and *)
(* an integrity policy are the numbers the code uses.  A run-time panic of *)
(* the Go code (index out of range) is the result with panicked = TRUE.    *)
(***************************************************************************)
EXTENDS Integers, Sequences, FiniteSets, TLC

VARIABLES securityDescriptor, token, desiredAccess, options, result, pc,
          calls, buf, sb, arg

vars == <<securityDescriptor, token, desiredAccess, options, result, pc,
          calls, buf, sb, arg>>

-----------------------------------------------------------------------------
(* Access mask bits (winnt.h values used by the package).                  *)

AccessMaskGenericRead    == {31}
AccessMaskGenericWrite   == {30}
AccessMaskGenericExecute == {29}
AccessMaskGenericAll     == {28}
AccessMaskSynchronize    == {20}
AccessMaskWriteOwner     == {19}
AccessMaskWriteDACL      == {18}
AccessMaskReadControl    == {17}
AccessMaskDelete         == {16}

\* 0xFFFFFFFF
AllBits == 0..31

\* ACE header type tags.
AceTypeAccessAllowed      == 0
AceTypeAccessDenied       == 1
AceTypeSystemAudit        == 2
AceTypeAccessDeniedObject == 6

-----------------------------------------------------------------------------
(* Integrity levels and policies.                                          *)

IntegrityLevelUntrusted == 0
IntegrityLevelLow       == 4096
IntegrityLevelMedium    == 8192
IntegrityLevelHigh      == 12288

PolicyNoWriteUp   == 1
PolicyNoReadUp    == 2
PolicyNoExecuteUp == 4

\* policy & flag != 0, for a single-bit flag
PolicyHas(policy, flag) == (policy \div flag) % 2 = 1

\* The three rights tests of CheckAccess, applied when the subject is lower.
PolicyDenies(policy, requestedAccess) ==
    \/ /\ PolicyHas(policy, PolicyNoWriteUp)
       /\ requestedAccess \cap (AccessMaskGenericWrite \cup AccessMaskWriteDACL
                                  \cup AccessMaskWriteOwner) # {}
    \/ /\ PolicyHas(policy, PolicyNoReadUp)
       /\ requestedAccess \cap (AccessMaskGenericRead \cup AccessMaskReadControl) # {}
    \/ /\ PolicyHas(policy, PolicyNoExecuteUp)
       /\ requestedAccess \cap AccessMaskGenericExecute # {}

\* A plausible slip: the read-up test forgets READ_CONTROL.
CheckAccessMutant(il, objectLevel, policy, requestedAccess) ==
    IF il >= objectLevel THEN TRUE
    ELSE ~ \/ /\ PolicyHas(policy, PolicyNoWriteUp)
              /\ requestedAccess \cap (AccessMaskGenericWrite \cup AccessMaskWriteDACL
                                         \cup AccessMaskWriteOwner) # {}
           \/ /\ PolicyHas(policy, PolicyNoReadUp)
              /\ requestedAccess \cap AccessMaskGenericRead # {}
           \/ /\ PolicyHas(policy, PolicyNoExecuteUp)
              /\ requestedAccess \cap AccessMaskGenericExecute # {}

\* IntegrityLevel.CheckAccess
CheckAccess(il, objectLevel, policy, requestedAccess) ==
    IF il >= objectLevel THEN TRUE
    ELSE ~PolicyDenies(policy, requestedAccess)

-----------------------------------------------------------------------------
(* SIDs and their canonical string.                                        *)

SID(revision, authority, subAuthorities) ==
    [Revision       |-> revision,
     NumAuthorities |-> Len(subAuthorities),
     Authority      |-> authority,
     SubAuthorities |-> subAuthorities]

\* s.SubAuthorities[i] is read for every i < NumAuthorities: the read is out
\* of range, and the call panics, when the slice is shorter than the count.
StringPanics(s) ==
    /\ Len(s.Authority) >= 6
    /\ s.NumAuthorities > Len(s.SubAuthorities)

\* SID.String, for a call that does not panic
String(s) ==
    IF Len(s.Authority) < 6 THEN <<>>
    ELSE <<s.Revision, s.Authority[6]>> \o SubSeq(s.SubAuthorities, 1, s.NumAuthorities)

\* "S-1-1-0"
EveryoneString == <<1, 1, 0>>


-----------------------------------------------------------------------------
(* Generic-rights mapping.  A mapping table is [isNil, table]: isNil is    *)
(* Go's nil map, table a function from uint32 keys to uint32 values.       *)

genericRights == <<AccessMaskGenericRead, AccessMaskGenericWrite,
                   AccessMaskGenericExecute, AccessMaskGenericAll>>

NilMapping == [isNil |-> TRUE, table |-> <<>>]
Mapping(t) == [isNil |-> FALSE, table |-> t]

\* A plausible slip: the mapped generic bit is not removed from access.
MapGenericStepMutant(st, genericRight, mapping) ==
    IF st.access \cap genericRight # {} /\ genericRight \in DOMAIN mapping.table
    THEN [access |-> st.access,
          result |-> st.result \cup mapping.table[genericRight]]
    ELSE st

\* One iteration of the loop over genericRights: st = [access, result].
MapGenericStep(st, genericRight, mapping) ==
    IF st.access \cap genericRight # {} /\ genericRight \in DOMAIN mapping.table
    THEN [access |-> st.access \ genericRight,
          result |-> st.result \cup mapping.table[genericRight]]
    ELSE st

RECURSIVE MapGenericLoop(_, _, _)
MapGenericLoop(st, k, mapping) ==
    IF k > Len(genericRights) THEN st
    ELSE MapGenericLoop(MapGenericStep(st, genericRights[k], mapping), k + 1, mapping)

\* MapGenericAccess
MapGenericAccess(access, mapping) ==
    IF mapping.isNil THEN access
    ELSE LET st     == MapGenericLoop([access |-> access, result |-> {}], 1, mapping)
             merged == st.result \cup st.access
         IN  IF merged = {} /\ st.access # {} THEN st.access ELSE merged

-----------------------------------------------------------------------------
(* Options.                                                                *)

DefaultMapping ==
    Mapping([g \in {AccessMaskGenericRead, AccessMaskGenericWrite,
                    AccessMaskGenericExecute, AccessMaskGenericAll} |->
             CASE g = AccessMaskGenericRead    -> AccessMaskReadControl
               [] g = AccessMaskGenericWrite   -> AccessMaskWriteDACL \cup AccessMaskWriteOwner
               [] g = AccessMaskGenericExecute -> AccessMaskSynchronize
               [] g = AccessMaskGenericAll     -> AllBits])

\* DefaultAccessCheckOptions (the integrity levels are Go's zero values)
DefaultAccessCheckOptions ==
    [isNil            |-> FALSE,
     IgnoreObjectType |-> TRUE,
     CheckIntegrity   |-> FALSE,
     IntegrityPolicy  |-> PolicyNoWriteUp,
     SubjectIntegrity |-> 0,
     ObjectIntegrity  |-> 0,
     GenericMapping   |-> DefaultMapping]

\* options == nil
NilOptions == [isNil |-> TRUE]

Options(checkIntegrity, policy, subject, object, mapping) ==
    [isNil            |-> FALSE,
     IgnoreObjectType |-> FALSE,
     CheckIntegrity   |-> checkIntegrity,
     IntegrityPolicy  |-> policy,
     SubjectIntegrity |-> subject,
     ObjectIntegrity  |-> object,
     GenericMapping   |-> mapping]

\* AccessCheck's  if options == nil { options = DefaultAccessCheckOptions() }
EffectiveOptions(opts) == IF opts.isNil THEN DefaultAccessCheckOptions ELSE opts

-----------------------------------------------------------------------------
(* ACEs.  ObjectAce holds a BasicAce, an AdvancedAce or nothing (nil).     *)

BasicAce(sid)    == [kind |-> "BasicAce", SecurityIdentifier |-> sid]
AdvancedAce(sid) == [kind |-> "AdvancedAce", SecurityIdentifier |-> sid]
NilObjectAce     == [kind |-> "nil"]

ACE(type, value, objectAce) ==
    [Header |-> [Type |-> type], AccessMask |-> [Value |-> value], ObjectAce |-> objectAce]

\* NewAccessAllowedACE / NewAccessDeniedACE
NewAccessAllowedACE(sid, value) == ACE(AceTypeAccessAllowed, value, BasicAce(sid))
NewAccessDeniedACE(sid, value)  == ACE(AceTypeAccessDenied, value, BasicAce(sid))

\* NewTokenUser
NewTokenUser(userSID, groups) == [UserSID |-> userSID, Groups |-> groups, Flags |-> 0]

\* The loop over token.Groups: "panic", "match" or "none".
RECURSIVE GroupsMatch(_, _, _)
GroupsMatch(aceSIDStr, groups, k) ==
    IF k > Len(groups) THEN "none"
    ELSE IF StringPanics(groups[k]) THEN "panic"
    ELSE IF aceSIDStr = String(groups[k]) THEN "match"
    ELSE GroupsMatch(aceSIDStr, groups, k + 1)

Applies(applies, reason) == [panicked |-> FALSE, applies |-> applies, reason |-> reason]
AppliesPanic == [panicked |-> TRUE, applies |-> FALSE, reason |-> "panic"]

\* A plausible slip: Everyone is matched like any other SID.
aceAppliesToTokenNoEveryone(ace, tok, opts) ==
    IF ace.ObjectAce.kind \notin {"BasicAce", "AdvancedAce"}
    THEN Applies(FALSE, "Unknown ACE object type")
    ELSE IF ace.ObjectAce.kind = "AdvancedAce" /\ opts.isNil THEN AppliesPanic
    ELSE LET aceSID == ace.ObjectAce.SecurityIdentifier IN
         IF StringPanics(aceSID) \/ StringPanics(tok.UserSID) THEN AppliesPanic
         ELSE IF String(aceSID) = String(tok.UserSID)
              THEN Applies(TRUE, "Directly matches user SID")
         ELSE LET g == GroupsMatch(String(aceSID), tok.Groups, 1) IN
              CASE g = "panic" -> AppliesPanic
                [] g = "match" -> Applies(TRUE, "Matches a group SID")
                [] OTHER       -> Applies(FALSE, "No SID match found")

\* aceAppliesToToken.  The AdvancedAce case reads options.IgnoreObjectType
\* before anything else is looked at: with nil options that read is a nil
\* pointer dereference and the call panics.  (AccessCheck, the only caller,
\* replaces nil options by the defaults first.)  The BasicAce case and the
\* default case never touch options.
aceAppliesToToken(ace, tok, opts) ==
    IF ace.ObjectAce.kind \notin {"BasicAce", "AdvancedAce"}
    THEN Applies(FALSE, "Unknown ACE object type")
    ELSE IF ace.ObjectAce.kind = "AdvancedAce" /\ opts.isNil THEN AppliesPanic
    ELSE LET aceSID == ace.ObjectAce.SecurityIdentifier IN
         IF StringPanics(aceSID) THEN AppliesPanic
         ELSE IF String(aceSID) = EveryoneString
              THEN Applies(TRUE, "Everyone SID matches all tokens")
         ELSE IF StringPanics(tok.UserSID) THEN AppliesPanic
         ELSE IF String(aceSID) = String(tok.UserSID)
              THEN Applies(TRUE, "Directly matches user SID")
         ELSE LET g == GroupsMatch(String(aceSID), tok.Groups, 1) IN
              CASE g = "panic" -> AppliesPanic
                [] g = "match" -> Applies(TRUE, "Matches a group SID")
                [] OTHER       -> Applies(FALSE, "No SID match found")

-----------------------------------------------------------------------------
(* AccessCheck.  The result is the Go AccessCheckResult (Ace is <<>> for   *)
(* nil and <<ace>> for a pointer to an ACE; a step of Details keeps its    *)
(* name, the ACE index printed in it (-1 when there is none) and its       *)
(* outcome) plus panicked, TRUE when the call aborted instead of           *)
(* returning.  Description texts, and the ACE index printed in the Reason  *)
(* of a deny match, are left out: the index is kept in Details and Ace.    *)

Detail(step, index, outcome) == [Step |-> step, Index |-> index, Outcome |-> outcome]

NewResult ==
    [panicked |-> FALSE, Granted |-> FALSE, Reason |-> "", Ace |-> <<>>,
     Access |-> {}, Details |-> <<>>]

Panic(details) ==
    [panicked |-> TRUE, Granted |-> FALSE, Reason |-> "panic", Ace |-> <<>>,
     Access |-> {}, Details |-> details]

\* A plausible slip: the length test is off by one.
HasNoAcesOffByOne(sd) == Len(sd.DACL.Aces) <= 1

\* A plausible slip: an empty DACL is evaluated like any other.
HasNoAcesMutant(sd) == FALSE

\* len(securityDescriptor.DACL.Aces) == 0
HasNoAces(sd) == Len(sd.DACL.Aces) = 0

\* ownerRights := uint32(AccessMaskReadControl | AccessMaskWriteDACL)
ownerRights == AccessMaskReadControl \cup AccessMaskWriteDACL

\* A plausible slip: ownership compared by SID value instead of by string.
IsOwnerMutant(tok, sd) == tok.UserSID = sd.Owner

\* isOwner := token.UserSID.String() == securityDescriptor.Owner.String()
IsOwner(tok, sd) == String(tok.UserSID) = String(sd.Owner)

\* The ACEs of the first pass: ace.Header.Type == AceTypeAccessDenied
IsDenyAce(ace) == ace.Header.Type = AceTypeAccessDenied

\* The ACEs of the second pass: ace.Header.Type == AceTypeAccessAllowed
IsAllowAce(ace) == ace.Header.Type = AceTypeAccessAllowed

\* A plausible slip: the bits already denied are not masked out.
allowedByThisAceMutant(aceMappedAccess, mappedAccess, deniedAccess) ==
    aceMappedAccess \cap mappedAccess

\* allowedByThisAce := aceMappedAccess & mappedAccess & ^deniedAccess
allowedByThisAce(aceMappedAccess, mappedAccess, deniedAccess) ==
    (aceMappedAccess \cap mappedAccess) \ deniedAccess

\* One iteration of the deny loop on the ACE of Go index i.
\* st = [deniedAccess, Reason, Details, Ace, returned, panicked]
DenyStep(ace, i, tok, opts, mappedAccess, st) ==
    IF ~IsDenyAce(ace) THEN st
    ELSE LET a == aceAppliesToToken(ace, tok, opts) IN
         IF a.panicked THEN [st EXCEPT !.panicked = TRUE]
         ELSE LET d1 == Append(st.Details, Detail("DenyACE", i, a.applies))
                  aceMappedAccess == MapGenericAccess(ace.AccessMask.Value, opts.GenericMapping)
                  hit    == aceMappedAccess \cap mappedAccess
                  denied == st.deniedAccess \cup hit
              IN  IF ~a.applies \/ hit = {}
                  THEN [st EXCEPT !.Details = d1]
                  ELSE [st EXCEPT !.Details = Append(d1, Detail("DenyACEMatch", i, FALSE)),
                                  !.Reason = "Access explicitly denied by ACE",
                                  !.deniedAccess = denied,
                                  !.Ace = IF denied = mappedAccess THEN <<ace>> ELSE @,
                                  !.returned = (denied = mappedAccess)]

RECURSIVE DenyLoop(_, _, _, _, _, _)
DenyLoop(aces, k, tok, opts, mappedAccess, st) ==
    IF k > Len(aces) \/ st.returned \/ st.panicked THEN st
    ELSE DenyLoop(aces, k + 1, tok, opts, mappedAccess,
                  DenyStep(aces[k], k - 1, tok, opts, mappedAccess, st))

\* A plausible slip: the allow loop stops at the first ACE that grants a bit
\* ("Windows processes ACEs until a match is found").
AllowStepFirstMatch(ace, i, tok, opts, mappedAccess, deniedAccess, st) ==
    IF ~IsAllowAce(ace) THEN st
    ELSE LET a == aceAppliesToToken(ace, tok, opts) IN
         IF a.panicked THEN [st EXCEPT !.panicked = TRUE]
         ELSE LET d1 == Append(st.Details, Detail("AllowACE", i, a.applies))
                  aceMappedAccess == MapGenericAccess(ace.AccessMask.Value, opts.GenericMapping)
                  allowed == allowedByThisAce(aceMappedAccess, mappedAccess, deniedAccess)
                  granted == st.grantedAccess \cup allowed
              IN  IF ~a.applies \/ allowed = {}
                  THEN [st EXCEPT !.Details = d1]
                  ELSE [st EXCEPT !.Details = Append(d1, Detail("AllowACEMatch", i, TRUE)),
                                  !.grantedAccess = granted,
                                  !.broke = TRUE]

\* One iteration of the allow loop on the ACE of Go index i.
\* st = [grantedAccess, Details, broke, panicked]
AllowStep(ace, i, tok, opts, mappedAccess, deniedAccess, st) ==
    IF ~IsAllowAce(ace) THEN st
    ELSE LET a == aceAppliesToToken(ace, tok, opts) IN
         IF a.panicked THEN [st EXCEPT !.panicked = TRUE]
         ELSE LET d1 == Append(st.Details, Detail("AllowACE", i, a.applies))
                  aceMappedAccess == MapGenericAccess(ace.AccessMask.Value, opts.GenericMapping)
                  allowed == allowedByThisAce(aceMappedAccess, mappedAccess, deniedAccess)
                  granted == st.grantedAccess \cup allowed
              IN  IF ~a.applies \/ allowed = {}
                  THEN [st EXCEPT !.Details = d1]
                  ELSE [st EXCEPT !.Details = Append(d1, Detail("AllowACEMatch", i, TRUE)),
                                  !.grantedAccess = granted,
                                  !.broke = ((granted \cup deniedAccess) = mappedAccess)]

RECURSIVE AllowLoop(_, _, _, _, _, _, _)
AllowLoop(aces, k, tok, opts, mappedAccess, deniedAccess, st) ==
    IF k > Len(aces) \/ st.broke \/ st.panicked THEN st
    ELSE AllowLoop(aces, k + 1, tok, opts, mappedAccess, deniedAccess,
                   AllowStep(aces[k], k - 1, tok, opts, mappedAccess, deniedAccess, st))

\* A plausible slip: the decision only asks that nothing is left unmatched.
FinalGrantedMutant(mappedAccess, grantedAccess, deniedAccess) ==
    mappedAccess \ (grantedAccess \cup deniedAccess) = {}

\* remainingAccess == 0 && grantedAccess == mappedAccess
FinalGranted(mappedAccess, grantedAccess, deniedAccess) ==
    /\ mappedAccess \ (grantedAccess \cup deniedAccess) = {}
    /\ grantedAccess = mappedAccess

\* A plausible slip: a denial reports no access at all.
FinalDecisionNoPartial(r, mappedAccess, grantedAccess, deniedAccess) ==
    IF grantedAccess = mappedAccess
    THEN [r EXCEPT !.Granted = TRUE,
                   !.Reason  = "Access granted by ACL",
                   !.Access  = grantedAccess,
                   !.Details = Append(@, Detail("FinalDecision", -1, TRUE))]
    ELSE [r EXCEPT !.Granted = FALSE,
                   !.Reason  = "Some requested access was not granted",
                   !.Details = Append(@, Detail("FinalDecision", -1, FALSE))]

\* "Determine final access", after both loops.
FinalDecision(r, mappedAccess, grantedAccess, deniedAccess) ==
    IF FinalGranted(mappedAccess, grantedAccess, deniedAccess)
    THEN [r EXCEPT !.Granted = TRUE,
                   !.Reason  = "Access granted by ACL",
                   !.Access  = grantedAccess,
                   !.Details = Append(@, Detail("FinalDecision", -1, TRUE))]
    ELSE [r EXCEPT !.Granted = FALSE,
                   !.Reason  = IF deniedAccess # {}
                               THEN "Some requested access was explicitly denied"
                               ELSE "Some requested access was not granted by any ACE",
                   !.Access  = grantedAccess,
                   !.Details = Append(@, Detail("FinalDecision", -1, FALSE))]

\* The two passes over the DACL and the final decision, from result r.
EvaluateAces(sd, tok, opts, mappedAccess, r) ==
    LET aces == sd.DACL.Aces
        d == DenyLoop(aces, 1, tok, opts, mappedAccess,
                      [deniedAccess |-> {}, Reason |-> r.Reason, Details |-> r.Details,
                       Ace |-> r.Ace, returned |-> FALSE, panicked |-> FALSE])
    IN  IF d.panicked THEN Panic(d.Details)
        ELSE IF d.returned
             THEN [r EXCEPT !.Reason = d.Reason, !.Details = d.Details, !.Ace = d.Ace]
        ELSE LET a == AllowLoop(aces, 1, tok, opts, mappedAccess, d.deniedAccess,
                                [grantedAccess |-> {}, Details |-> d.Details,
                                 broke |-> FALSE, panicked |-> FALSE])
             IN  IF a.panicked THEN Panic(a.Details)
                 ELSE FinalDecision([r EXCEPT !.Reason = d.Reason, !.Details = a.Details],
                                    mappedAccess, a.grantedAccess, d.deniedAccess)

\* The owner check and what follows it (the DACL is not empty).
OwnerCheck(sd, tok, opts, mappedAccess, r) ==
    IF StringPanics(tok.UserSID) \/ StringPanics(sd.Owner) THEN Panic(r.Details)
    ELSE LET isOwner == IsOwner(tok, sd)
             r1 == [r EXCEPT !.Details = Append(@, Detail("OwnerCheck", -1, isOwner))]
         IN  IF isOwner /\ mappedAccess \ ownerRights = {}
             THEN [r1 EXCEPT !.Granted = TRUE,
                             !.Reason  = "Access granted to owner",
                             !.Access  = mappedAccess \cap ownerRights,
                             !.Details = Append(@, Detail("OwnerRights", -1, TRUE))]
             ELSE EvaluateAces(sd, tok, opts, mappedAccess, r1)

\* A plausible slip: the integrity denial sets the reason but does not return.
AccessCheckMutant(sd, tok, desired, optionsArg) ==
    LET opts == EffectiveOptions(optionsArg)
        mappedAccess == MapGenericAccess(desired, opts.GenericMapping)
        integrityCheck == CheckAccess(opts.SubjectIntegrity, opts.ObjectIntegrity,
                                      opts.IntegrityPolicy, mappedAccess)
        r0 == IF opts.CheckIntegrity
              THEN [NewResult EXCEPT
                      !.Details = Append(@, Detail("IntegrityLevel", -1, integrityCheck)),
                      !.Reason  = IF integrityCheck THEN ""
                                  ELSE "Access denied by integrity level policy"]
              ELSE NewResult
    IN  IF HasNoAces(sd)
        THEN [r0 EXCEPT !.Granted = TRUE,
                        !.Reason  = "No DACL present (full access)",
                        !.Access  = mappedAccess,
                        !.Details = Append(@, Detail("EmptyDACL", -1, TRUE))]
        ELSE OwnerCheck(sd, tok, opts, mappedAccess, r0)

\* AccessCheck
AccessCheck(sd, tok, desired, optionsArg) ==
    LET opts == EffectiveOptions(optionsArg)
        mappedAccess == MapGenericAccess(desired, opts.GenericMapping)
        integrityCheck == CheckAccess(opts.SubjectIntegrity, opts.ObjectIntegrity,
                                      opts.IntegrityPolicy, mappedAccess)
        r0 == IF opts.CheckIntegrity
              THEN [NewResult EXCEPT
                      !.Details = Append(@, Detail("IntegrityLevel", -1, integrityCheck))]
              ELSE NewResult
    IN  IF opts.CheckIntegrity /\ ~integrityCheck
        THEN [r0 EXCEPT !.Reason = "Access denied by integrity level policy"]
        ELSE IF HasNoAces(sd)
        THEN [r0 EXCEPT !.Granted = TRUE,
                        !.Reason  = "No DACL present (full access)",
                        !.Access  = mappedAccess,
                        !.Details = Append(@, Detail("EmptyDACL", -1, TRUE))]
        ELSE OwnerCheck(sd, tok, opts, mappedAccess, r0)

-----------------------------------------------------------------------------
(* The inputs of the model.                                                *)

\* Longest DACL of the model.
MaxAces == 2

EveryoneSID == SID(1, <<0, 0, 0, 0, 0, 1>>, <<0>>)
UserA       == SID(1, <<0, 0, 0, 0, 0, 5>>, <<18>>)
\* differs from UserA in an authority byte String does not print
UserATwin   == SID(1, <<0, 0, 0, 0, 1, 5>>, <<18>>)
UserB       == SID(1, <<0, 0, 0, 0, 0, 5>>, <<21, 1001>>)
GroupG      == SID(1, <<0, 0, 0, 0, 0, 5>>, <<32, 544>>)

\* the mapping table of the package's tests
TestMapping ==
    Mapping([g \in {AccessMaskGenericRead, AccessMaskGenericWrite,
                    AccessMaskGenericExecute, AccessMaskGenericAll} |->
             CASE g = AccessMaskGenericRead    -> AccessMaskReadControl
               [] g = AccessMaskGenericWrite   -> AccessMaskWriteDACL
               [] g = AccessMaskGenericExecute -> AccessMaskSynchronize
               [] g = AccessMaskGenericAll     -> AllBits])

PartialMapping ==
    Mapping([g \in {AccessMaskGenericRead, AccessMaskGenericExecute} |->
             IF g = AccessMaskGenericRead THEN AccessMaskReadControl
                                          ELSE AccessMaskSynchronize])

AcePool ==
    { NewAccessAllowedACE(EveryoneSID, AccessMaskGenericRead),
      NewAccessAllowedACE(UserA, AccessMaskGenericAll),
      NewAccessAllowedACE(GroupG, AccessMaskGenericWrite \cup AccessMaskReadControl),
      NewAccessDeniedACE(EveryoneSID, AccessMaskGenericWrite),
      NewAccessDeniedACE(GroupG, AccessMaskGenericRead \cup AccessMaskWriteDACL),
      ACE(AceTypeAccessDeniedObject, AccessMaskGenericWrite, AdvancedAce(UserA)) }

SeqsUpTo(S, n) == UNION { [1..k -> S] : k \in 0..n }

Descriptors ==
    { [Owner |-> o, Group |-> GroupG, DACL |-> [Aces |-> aces]] :
        o \in {UserA, UserATwin, GroupG}, aces \in SeqsUpTo(AcePool, MaxAces) }

Tokens ==
    { NewTokenUser(u, g) : u \in {UserA, UserB},
                           g \in {<<>>, <<EveryoneSID>>, <<EveryoneSID, GroupG>>} }

DesiredMasks ==
    { {}, AccessMaskGenericRead, AccessMaskGenericWrite, AccessMaskGenericExecute,
      AccessMaskGenericRead \cup AccessMaskGenericWrite,
      AccessMaskReadControl \cup AccessMaskWriteDACL,
      AccessMaskGenericAll }

OptionsPool ==
    { NilOptions,
      Options(FALSE, PolicyNoWriteUp, 0, 0, NilMapping),
      Options(FALSE, PolicyNoWriteUp, 0, 0, TestMapping),
      Options(FALSE, PolicyNoWriteUp, 0, 0, PartialMapping),
      Options(TRUE, PolicyNoWriteUp, IntegrityLevelLow, IntegrityLevelHigh, TestMapping),
      Options(TRUE, PolicyNoReadUp, IntegrityLevelLow, IntegrityLevelHigh, NilMapping),
      Options(TRUE, PolicyNoExecuteUp, IntegrityLevelLow, IntegrityLevelHigh, DefaultMapping),
      Options(TRUE, PolicyNoExecuteUp, IntegrityLevelLow, IntegrityLevelHigh, NilMapping),
      Options(TRUE, PolicyNoWriteUp + PolicyNoReadUp + PolicyNoExecuteUp,
              IntegrityLevelHigh, IntegrityLevelMedium, DefaultMapping) }

-----------------------------------------------------------------------------
(* The state machine: a caller holds a descriptor, a token, a request and  *)
(* options, and calls AccessCheck once.                                    *)

Init ==
    /\ securityDescriptor \in Descriptors
    /\ token \in Tokens
    /\ desiredAccess \in DesiredMasks
    /\ options \in OptionsPool
    /\ result = NewResult
    /\ pc = "ready"
    /\ calls = <<>> /\ buf = <<>> /\ sb = <<>> /\ arg = 0

DoAccessCheck ==
    /\ pc = "ready"
    /\ result' = AccessCheck(securityDescriptor, token, desiredAccess, options)
    /\ pc' = "done"
    /\ UNCHANGED <<securityDescriptor, token, desiredAccess, options, calls, buf, sb, arg>>

Next == DoAccessCheck

Spec == Init /\ [][Next]_vars

-----------------------------------------------------------------------------
(* IntegrityLevel.CheckAccess called on its own: options holds the         *)
(* subject level, the object level and the policy, desiredAccess the       *)
(* requested rights, result the boolean returned.                          *)

\* Largest policy value of the model (PolicyNoWriteUp | NoReadUp | NoExecuteUp)
MaxPolicy == 7

IntegrityLevels ==
    {IntegrityLevelUntrusted, IntegrityLevelLow, IntegrityLevelMedium, IntegrityLevelHigh}

RightsBits ==
    UNION {AccessMaskGenericRead, AccessMaskGenericWrite, AccessMaskGenericExecute,
           AccessMaskGenericAll, AccessMaskSynchronize, AccessMaskWriteOwner,
           AccessMaskWriteDACL, AccessMaskReadControl}

NoDescriptor == [Owner |-> EveryoneSID, Group |-> EveryoneSID, DACL |-> [Aces |-> <<>>]]
NoToken      == NewTokenUser(EveryoneSID, <<>>)

InitCheckAccess ==
    /\ securityDescriptor = NoDescriptor
    /\ token = NoToken
    /\ desiredAccess \in SUBSET RightsBits
    /\ options \in { Options(TRUE, p, s, o, NilMapping) :
                       p \in 0..MaxPolicy, s \in IntegrityLevels, o \in IntegrityLevels }
    /\ result = NewResult
    /\ pc = "ready"
    /\ calls = <<>> /\ buf = <<>> /\ sb = <<>> /\ arg = 0

DoCheckAccess ==
    /\ pc = "ready"
    /\ result' = CheckAccess(options.SubjectIntegrity, options.ObjectIntegrity,
                             options.IntegrityPolicy, desiredAccess)
    /\ pc' = "done"
    /\ UNCHANGED <<securityDescriptor, token, desiredAccess, options, calls, buf, sb, arg>>

NextCheckAccess == DoCheckAccess

SpecCheckAccess == InitCheckAccess /\ [][NextCheckAccess]_vars

-----------------------------------------------------------------------------
(* MapGenericAccess called on its own: desiredAccess is the access mask,   *)
(* options.GenericMapping the table, result the mask returned.             *)

EmptyMapping == Mapping(<<>>)

\* a table with a key that is no generic right, and generic bits in a value
OddMapping ==
    Mapping([g \in {AccessMaskGenericWrite, AccessMaskDelete} |->
             IF g = AccessMaskGenericWrite
             THEN AccessMaskGenericRead \cup AccessMaskWriteDACL
             ELSE AccessMaskSynchronize])

MappingPool ==
    {NilMapping, EmptyMapping, DefaultMapping, TestMapping, PartialMapping, OddMapping}

MapInputBits ==
    UNION {AccessMaskGenericRead, AccessMaskGenericWrite, AccessMaskGenericExecute,
           AccessMaskGenericAll, AccessMaskReadControl, AccessMaskDelete}

InitMapGenericAccess ==
    /\ securityDescriptor = NoDescriptor
    /\ token = NoToken
    /\ desiredAccess \in SUBSET MapInputBits
    /\ options \in { Options(FALSE, 0, 0, 0, m) : m \in MappingPool }
    /\ result = NewResult
    /\ pc = "ready"
    /\ calls = <<>> /\ buf = <<>> /\ sb = <<>> /\ arg = 0

DoMapGenericAccess ==
    /\ pc = "ready"
    /\ result' = MapGenericAccess(desiredAccess, options.GenericMapping)
    /\ pc' = "done"
    /\ UNCHANGED <<securityDescriptor, token, desiredAccess, options, calls, buf, sb, arg>>

NextMapGenericAccess == DoMapGenericAccess

SpecMapGenericAccess == InitMapGenericAccess /\ [][NextMapGenericAccess]_vars

-----------------------------------------------------------------------------
(* AccessCheck on values of any shape: the fields of SID, ACE and          *)
(* TokenUser are exported, so a caller can hand over a SID whose           *)
(* NumAuthorities disagrees with its SubAuthorities, a SID without         *)
(* authority bytes (Go's zero SID), or an ACE without a body.              *)

\* Go's zero value SID{}
ZeroSID == [Revision |-> 0, NumAuthorities |-> 0, Authority |-> <<>>, SubAuthorities |-> <<>>]

\* NumAuthorities = 2, one sub-authority
ShortSID == [Revision |-> 1, NumAuthorities |-> 2, Authority |-> <<0, 0, 0, 0, 0, 5>>,
             SubAuthorities |-> <<18>>]

\* NumAuthorities = 0, one sub-authority: prints as "S-1-5"
LongSID == [Revision |-> 1, NumAuthorities |-> 0, Authority |-> <<0, 0, 0, 0, 0, 5>>,
            SubAuthorities |-> <<18>>]

AnyShapeAces ==
    { NewAccessAllowedACE(EveryoneSID, AccessMaskGenericRead),
      NewAccessAllowedACE(ShortSID, AccessMaskGenericRead),
      NewAccessDeniedACE(GroupG, AccessMaskGenericWrite),
      NewAccessDeniedACE(ZeroSID, AccessMaskGenericRead),
      ACE(AceTypeAccessAllowed, AccessMaskGenericRead, NilObjectAce),
      ACE(AceTypeSystemAudit, AccessMaskGenericAll, BasicAce(ShortSID)) }

InitAnyShape ==
    /\ securityDescriptor \in
         { [Owner |-> o, Group |-> GroupG, DACL |-> [Aces |-> aces]] :
             o \in {UserA, ZeroSID, ShortSID}, aces \in SeqsUpTo(AnyShapeAces, MaxAces) }
    /\ token \in { NewTokenUser(u, g) : u \in {UserA, ZeroSID, ShortSID, LongSID},
                                        g \in {<<>>, <<GroupG>>, <<ShortSID, GroupG>>} }
    /\ desiredAccess \in {{}, AccessMaskGenericRead, AccessMaskGenericWrite}
    /\ options \in {NilOptions, Options(FALSE, 0, 0, 0, NilMapping)}
    /\ result = NewResult
    /\ pc = "ready"
    /\ calls = <<>> /\ buf = <<>> /\ sb = <<>> /\ arg = 0

SpecAnyShape == InitAnyShape /\ [][Next]_vars

-----------------------------------------------------------------------------
(* What the claims speak of, stated on the inputs of the call.             *)

Aces == securityDescriptor.DACL.Aces

\* the mapping table in force and the mapped request
TableInForce == EffectiveOptions(options).GenericMapping
MappedRequest == MapGenericAccess(desiredAccess, TableInForce)

\* the ACE applies to the token
AceApplies(ace) == aceAppliesToToken(ace, token, EffectiveOptions(options)).applies

MappedRights(ace) == MapGenericAccess(ace.AccessMask.Value, TableInForce)

\* union of the mapped rights of the applicable access-allowed ACEs
AllowedUnion ==
    UNION { MappedRights(Aces[i]) :
              i \in { j \in DOMAIN Aces : Aces[j].Header.Type = AceTypeAccessAllowed
                                          /\ AceApplies(Aces[j]) } }

\* union of the mapped rights of the applicable access-denied ACEs
DeniedUnion ==
    UNION { MappedRights(Aces[i]) :
              i \in { j \in DOMAIN Aces : Aces[j].Header.Type = AceTypeAccessDenied
                                          /\ AceApplies(Aces[j]) } }

\* the requested bits some applicable allow ACE grants and no applicable deny ACE denies
GrantedSet == (MappedRequest \cap AllowedUnion) \ DeniedUnion

\* the integrity check is disabled or passes
IntegrityPasses ==
    LET o == EffectiveOptions(options) IN
    \/ ~o.CheckIntegrity
    \/ o.SubjectIntegrity >= o.ObjectIntegrity
    \/ ~PolicyDenies(o.IntegrityPolicy, MappedRequest)

\* the token's user is the owner, by canonical string
UserIsOwner == String(token.UserSID) = String(securityDescriptor.Owner)

OwnerShortCircuit == UserIsOwner /\ MappedRequest \subseteq ownerRights

StepNames == { result.Details[i].Step : i \in DOMAIN result.Details }

DenySteps  == {"DenyACE", "DenyACEMatch"}
AllowSteps == {"AllowACE", "AllowACEMatch"}

\* the call went on to the two passes over the ACEs
AceEvaluationRan == "OwnerCheck" \in StepNames /\ "OwnerRights" \notin StepNames

-----------------------------------------------------------------------------
(* C1 *)

\* C1: every deny step of the trace precedes every allow step; and when the
\* ACEs are evaluated, no requested bit an applicable deny ACE denies is in
\* the granted access, and a request holding such a bit is not granted,
\* wherever the deny ACE stands in the DACL.
C1_DenyBeforeAllow ==
    pc = "done" =>
      /\ \A i, j \in DOMAIN result.Details :
           (result.Details[i].Step \in DenySteps /\ result.Details[j].Step \in AllowSteps)
             => i < j
      /\ AceEvaluationRan =>
           /\ result.Access \cap DeniedUnion = {}
           /\ (MappedRequest \cap DeniedUnion # {}) => ~result.Granted

\* An applicable allow ACE stands before an applicable deny ACE that denies a
\* requested bit the allow ACE grants, and part of the request was granted.
C1_Witness ==
    /\ pc = "done"
    /\ AceEvaluationRan
    /\ \E i, j \in DOMAIN Aces :
         /\ i < j
         /\ Aces[i].Header.Type = AceTypeAccessAllowed /\ AceApplies(Aces[i])
         /\ Aces[j].Header.Type = AceTypeAccessDenied /\ AceApplies(Aces[j])
         /\ MappedRights(Aces[i]) \cap MappedRights(Aces[j]) \cap MappedRequest # {}
    /\ result.Access # {}
    /\ ~result.Granted

-----------------------------------------------------------------------------
(* C2 *)

\* C2: for a non-empty DACL, the integrity check disabled or passing and the
\* owner short-circuit not taken, Granted is TRUE exactly when the granted
\* set equals the mapped request; a non-empty request that no applicable
\* allow ACE matches is denied.
C2_GrantIffAllGranted ==
    (pc = "done" /\ Len(Aces) > 0 /\ IntegrityPasses /\ ~OwnerShortCircuit)
      => /\ result.Granted <=> (GrantedSet = MappedRequest)
         /\ (MappedRequest # {} /\ MappedRequest \cap AllowedUnion = {}) => ~result.Granted

\* A request granted by allow ACEs although the DACL holds an applicable deny ACE.
C2_Witness ==
    /\ pc = "done" /\ Len(Aces) > 0 /\ IntegrityPasses /\ ~OwnerShortCircuit
    /\ result.Granted
    /\ MappedRequest # {}
    /\ DeniedUnion # {}

-----------------------------------------------------------------------------
(* C3 *)

\* C3 as stated: with an empty DACL every request is granted in full.
C3_EmptyDaclAlwaysGrants ==
    (pc = "done" /\ Len(Aces) = 0)
      => (result.Granted /\ result.Access = MappedRequest)

\* C3 amended: with an empty DACL, and the integrity check disabled or
\* passing, every request is granted in full; a request the integrity policy
\* denies is denied with no access.
C3_EmptyDaclGrants ==
    (pc = "done" /\ Len(Aces) = 0)
      => IF IntegrityPasses
         THEN result.Granted /\ result.Access = MappedRequest
         ELSE ~result.Granted /\ result.Access = {}

\* An empty DACL, the integrity check enabled and passing, a non-owner granted.
C3_Witness ==
    /\ pc = "done" /\ Len(Aces) = 0
    /\ EffectiveOptions(options).CheckIntegrity /\ IntegrityPasses
    /\ ~UserIsOwner
    /\ MappedRequest # {}
    /\ result.Granted /\ result.Access = MappedRequest

-----------------------------------------------------------------------------
(* C4 *)

\* C4 as stated: the owner asking for a subset of READ_CONTROL | WRITE_DAC is
\* granted that subset before any ACE is evaluated.
C4_OwnerAlwaysGranted ==
    (pc = "done" /\ OwnerShortCircuit)
      => /\ result.Granted /\ result.Access = MappedRequest
         /\ StepNames \cap (DenySteps \cup AllowSteps) = {}

\* C4 amended: the same, provided the integrity check is disabled or passes;
\* a request the integrity policy denies is denied, owner or not.
C4_OwnerGranted ==
    (pc = "done" /\ OwnerShortCircuit)
      => /\ StepNames \cap (DenySteps \cup AllowSteps) = {}
         /\ IF IntegrityPasses
            THEN result.Granted /\ result.Access = MappedRequest
            ELSE ~result.Granted /\ result.Access = {}

\* The owner, equal to the user by string only, is granted rights that an
\* applicable deny ACE of the DACL denies.
C4_Witness ==
    /\ pc = "done" /\ OwnerShortCircuit /\ IntegrityPasses
    /\ token.UserSID # securityDescriptor.Owner
    /\ MappedRequest \cap DeniedUnion # {}
    /\ result.Granted /\ result.Access = MappedRequest

-----------------------------------------------------------------------------
(* C5 *)

\* C5 as stated: every denial reports the partially granted bits.
C5_DenialAlwaysReportsPartial ==
    (pc = "done" /\ ~result.Granted) => result.Access = GrantedSet

\* C5 amended: a denial that comes out of the ACE evaluation reports the
\* partially granted bits; a denial by the integrity policy reports none.
C5_DenialReportsPartial ==
    (pc = "done" /\ ~result.Granted)
      => IF IntegrityPasses THEN result.Access = GrantedSet
                            ELSE result.Access = {}

\* GENERIC_READ | GENERIC_WRITE requested, only read allowed: the denial
\* reports the read bits and none of the write bits.
C5_Witness ==
    /\ pc = "done" /\ ~result.Granted
    /\ desiredAccess = AccessMaskGenericRead \cup AccessMaskGenericWrite
    /\ TableInForce = TestMapping
    /\ DeniedUnion = {}
    /\ result.Access = AccessMaskReadControl

-----------------------------------------------------------------------------
(* C6 *)

\* The DACL is one access-allowed ACE for S-1-1-0 with rights GENERIC_READ.
EveryoneReadOnly ==
    /\ Len(Aces) = 1
    /\ Aces[1].Header.Type = AceTypeAccessAllowed
    /\ Aces[1].ObjectAce.kind \in {"BasicAce", "AdvancedAce"}
    /\ String(Aces[1].ObjectAce.SecurityIdentifier) = EveryoneString
    /\ Aces[1].AccessMask.Value = AccessMaskGenericRead

\* C6: with that DACL and options = nil, GENERIC_READ is granted and
\* GENERIC_WRITE denied, for every token and owner.
C6_EveryoneRead ==
    (pc = "done" /\ EveryoneReadOnly /\ options.isNil)
      => /\ (desiredAccess = AccessMaskGenericRead) => result.Granted
         /\ (desiredAccess = AccessMaskGenericWrite) => ~result.Granted

\* A user without groups who is not the owner is granted GENERIC_READ.
C6_Witness ==
    /\ pc = "done" /\ EveryoneReadOnly /\ options.isNil
    /\ desiredAccess = AccessMaskGenericRead
    /\ token.Groups = <<>> /\ ~UserIsOwner
    /\ result.Granted

-----------------------------------------------------------------------------
(* C7 *)

WriteUpRights   == {30, 18, 19}
ReadUpRights    == {31, 17}
ExecuteUpRights == {29}

\* C7: CheckAccess is TRUE when subject >= object; below, it is FALSE exactly
\* when an enabled policy clause meets the requested rights.
C7_CheckAccess ==
    pc = "done" =>
      LET p == options.IntegrityPolicy IN
      result =
        IF options.SubjectIntegrity >= options.ObjectIntegrity THEN TRUE
        ELSE ~ \/ (p % 2 = 1 /\ desiredAccess \cap WriteUpRights # {})
               \/ ((p \div 2) % 2 = 1 /\ desiredAccess \cap ReadUpRights # {})
               \/ ((p \div 4) % 2 = 1 /\ desiredAccess \cap ExecuteUpRights # {})

\* A lower subject asking for READ_CONTROL alone is refused under NoReadUp.
C7_Witness ==
    /\ pc = "done"
    /\ options.SubjectIntegrity < options.ObjectIntegrity
    /\ options.IntegrityPolicy = PolicyNoReadUp
    /\ desiredAccess = AccessMaskReadControl
    /\ result = FALSE

-----------------------------------------------------------------------------
(* C8 *)

\* C8: with CheckIntegrity, a policy holding NoExecuteUp and a lower subject,
\* a request that includes GENERIC_EXECUTE is never granted.
C8_NoExecuteUp ==
    ( /\ pc = "done"
      /\ ~options.isNil
      /\ options.CheckIntegrity
      /\ PolicyHas(options.IntegrityPolicy, PolicyNoExecuteUp)
      /\ options.SubjectIntegrity < options.ObjectIntegrity
      /\ AccessMaskGenericExecute \subseteq desiredAccess )
      => ~result.Granted

-----------------------------------------------------------------------------
(* C9 *)

GenericBits == {31, 30, 29, 28}

\* C9: a nil table is the identity; otherwise the result is the union of the
\* table entries of the generic bits set in access, of the generic bits set
\* in access without an entry, and of the non-generic bits of access.
C9_MapGenericAccess ==
    pc = "done" =>
      LET m == options.GenericMapping IN
      IF m.isNil THEN result = desiredAccess
      ELSE result =
             UNION { m.table[{g}] : g \in { b \in GenericBits \cap desiredAccess :
                                              {b} \in DOMAIN m.table } }
             \cup { b \in GenericBits \cap desiredAccess : {b} \notin DOMAIN m.table }
             \cup (desiredAccess \ GenericBits)

\* GENERIC_READ is mapped, GENERIC_WRITE has no entry and passes through,
\* DELETE is kept.
C9_Witness ==
    /\ pc = "done"
    /\ options.GenericMapping = PartialMapping
    /\ desiredAccess = {31, 30, 16}
    /\ result = {17, 30, 16}

-----------------------------------------------------------------------------
(* C10 *)

\* C10: AccessCheck never aborts: every call returns a grant or a denial.
C10_NeverFails ==
    pc = "done" => (~result.panicked /\ result.Granted \in BOOLEAN)

-----------------------------------------------------------------------------
(* Concurrent calls of AccessCheck.  NumCalls goroutines call AccessCheck  *)
(* on the same descriptor, token and options, each with its own request.   *)
(* A call advances one statement group of the function at a time (the      *)
(* set-up, the integrity check, the empty-DACL check, the owner check, one *)
(* iteration of the deny loop, one iteration of the allow loop, the final  *)
(* decision) and the steps of the calls interleave freely.  calls[c] holds *)
(* the locals of call c; the descriptor, the token and the options are     *)
(* read from the shared variables at every step.                           *)

\* Number of concurrent calls.
NumCalls == 2

\* The locals of a call that has not started.
NewCall(desired) ==
    [pc |-> "begin", desiredAccess |-> desired, options |-> NilOptions,
     mappedAccess |-> {}, result |-> NewResult,
     grantedAccess |-> {}, deniedAccess |-> {}, i |-> 0]

\* A plausible slip: the mapped mask is stored back into the ACE of the slice.
AcesAfterIterationMutant(aces, k, ace, opts) ==
    [aces EXCEPT ![k].AccessMask.Value =
                    MapGenericAccess(ace.AccessMask.Value, opts.GenericMapping)]

\* The descriptor's ACE slice after one iteration of "for i, ace := range
\* securityDescriptor.DACL.Aces": ace is a copy of element k, and the body
\* assigns to no element of the slice.
AcesAfterIteration(aces, k, ace, opts) == aces

\* result := &AccessCheckResult{...}; options == nil; mappedAccess := ...
CallBegin(c) ==
    /\ calls[c].pc = "begin"
    /\ LET opts == EffectiveOptions(options) IN
       calls' = [calls EXCEPT
                   ![c].pc = "integrity",
                   ![c].options = opts,
                   ![c].result = NewResult,
                   ![c].mappedAccess =
                       MapGenericAccess(calls[c].desiredAccess, opts.GenericMapping)]
    /\ UNCHANGED <<securityDescriptor, token, desiredAccess, options, result, pc, buf, sb, arg>>

\* if options.CheckIntegrity { ... }
CallIntegrity(c) ==
    /\ calls[c].pc = "integrity"
    /\ LET me == calls[c]
           opts == me.options
           integrityCheck == CheckAccess(opts.SubjectIntegrity, opts.ObjectIntegrity,
                                         opts.IntegrityPolicy, me.mappedAccess)
           r0 == [me.result EXCEPT
                    !.Details = Append(@, Detail("IntegrityLevel", -1, integrityCheck))]
       IN  calls' = [calls EXCEPT ![c] =
             IF ~opts.CheckIntegrity THEN [me EXCEPT !.pc = "dacl"]
             ELSE IF integrityCheck THEN [me EXCEPT !.pc = "dacl", !.result = r0]
             ELSE [me EXCEPT !.pc = "done",
                             !.result = [r0 EXCEPT !.Reason =
                                           "Access denied by integrity level policy"]]]
    /\ UNCHANGED <<securityDescriptor, token, desiredAccess, options, result, pc, buf, sb, arg>>

\* if len(securityDescriptor.DACL.Aces) == 0 { ... }
CallEmptyDACL(c) ==
    /\ calls[c].pc = "dacl"
    /\ LET me == calls[c] IN
       calls' = [calls EXCEPT ![c] =
         IF HasNoAces(securityDescriptor)
         THEN [me EXCEPT !.pc = "done",
                         !.result = [me.result EXCEPT
                            !.Granted = TRUE,
                            !.Reason  = "No DACL present (full access)",
                            !.Access  = me.mappedAccess,
                            !.Details = Append(@, Detail("EmptyDACL", -1, TRUE))]]
         ELSE [me EXCEPT !.pc = "owner"]]
    /\ UNCHANGED <<securityDescriptor, token, desiredAccess, options, result, pc, buf, sb, arg>>

\* isOwner := ...; if isOwner && (mappedAccess & ^ownerRights) == 0 { ... };
\* grantedAccess := uint32(0); deniedAccess := uint32(0)
CallOwner(c) ==
    /\ calls[c].pc = "owner"
    /\ LET me == calls[c]
           isOwner == IsOwner(token, securityDescriptor)
           r1 == [me.result EXCEPT !.Details = Append(@, Detail("OwnerCheck", -1, isOwner))]
       IN  calls' = [calls EXCEPT ![c] =
             IF StringPanics(token.UserSID) \/ StringPanics(securityDescriptor.Owner)
             THEN [me EXCEPT !.pc = "done", !.result = Panic(me.result.Details)]
             ELSE IF isOwner /\ me.mappedAccess \ ownerRights = {}
             THEN [me EXCEPT !.pc = "done",
                             !.result = [r1 EXCEPT
                                !.Granted = TRUE,
                                !.Reason  = "Access granted to owner",
                                !.Access  = me.mappedAccess \cap ownerRights,
                                !.Details = Append(@, Detail("OwnerRights", -1, TRUE))]]
             ELSE [me EXCEPT !.pc = "deny", !.result = r1, !.i = 1,
                             !.grantedAccess = {}, !.deniedAccess = {}]]
    /\ UNCHANGED <<securityDescriptor, token, desiredAccess, options, result, pc, buf, sb, arg>>

\* One iteration of the deny loop of call c, on the ACE the shared slice
\* holds at the call's index.
CallDeny(c) ==
    /\ calls[c].pc = "deny"
    /\ LET me   == calls[c]
           aces == securityDescriptor.DACL.Aces
           ace  == aces[me.i]
           st   == DenyStep(ace, me.i - 1, token, me.options, me.mappedAccess,
                            [deniedAccess |-> me.deniedAccess, Reason |-> me.result.Reason,
                             Details |-> me.result.Details, Ace |-> me.result.Ace,
                             returned |-> FALSE, panicked |-> FALSE])
           r    == [me.result EXCEPT !.Reason = st.Reason, !.Details = st.Details,
                                     !.Ace = st.Ace]
       IN  /\ calls' = [calls EXCEPT ![c] =
                IF st.panicked THEN [me EXCEPT !.pc = "done", !.result = Panic(st.Details)]
                ELSE IF st.returned THEN [me EXCEPT !.pc = "done", !.result = r]
                ELSE [me EXCEPT !.pc = IF me.i = Len(aces) THEN "allow" ELSE "deny",
                                !.i  = IF me.i = Len(aces) THEN 1 ELSE me.i + 1,
                                !.result = r,
                                !.deniedAccess = st.deniedAccess]]
           /\ securityDescriptor' =
                [securityDescriptor EXCEPT
                   !.DACL.Aces = AcesAfterIteration(aces, me.i, ace, me.options)]
    /\ UNCHANGED <<token, desiredAccess, options, result, pc, buf, sb, arg>>

\* One iteration of the allow loop of call c.
CallAllow(c) ==
    /\ calls[c].pc = "allow"
    /\ LET me   == calls[c]
           aces == securityDescriptor.DACL.Aces
           ace  == aces[me.i]
           st   == AllowStep(ace, me.i - 1, token, me.options, me.mappedAccess,
                             me.deniedAccess,
                             [grantedAccess |-> me.grantedAccess,
                              Details |-> me.result.Details,
                              broke |-> FALSE, panicked |-> FALSE])
           r    == [me.result EXCEPT !.Details = st.Details]
       IN  /\ calls' = [calls EXCEPT ![c] =
                IF st.panicked THEN [me EXCEPT !.pc = "done", !.result = Panic(st.Details)]
                ELSE [me EXCEPT !.pc = IF st.broke \/ me.i = Len(aces)
                                       THEN "final" ELSE "allow",
                                !.i  = me.i + 1,
                                !.result = r,
                                !.grantedAccess = st.grantedAccess]]
           /\ securityDescriptor' =
                [securityDescriptor EXCEPT
                   !.DACL.Aces = AcesAfterIteration(aces, me.i, ace, me.options)]
    /\ UNCHANGED <<token, desiredAccess, options, result, pc, buf, sb, arg>>

\* "Determine final access" and return.
CallFinal(c) ==
    /\ calls[c].pc = "final"
    /\ LET me == calls[c] IN
       calls' = [calls EXCEPT
                   ![c].pc = "done",
                   ![c].result = FinalDecision(me.result, me.mappedAccess,
                                               me.grantedAccess, me.deniedAccess)]
    /\ UNCHANGED <<securityDescriptor, token, desiredAccess, options, result, pc, buf, sb, arg>>

\* The calls share a DACL drawn from a deny ACE and two allow ACEs; each call
\* asks for GENERIC_READ or for GENERIC_READ | GENERIC_WRITE.
InitConcurrent ==
    /\ securityDescriptor \in
         { [Owner |-> GroupG, Group |-> GroupG, DACL |-> [Aces |-> aces]] :
             aces \in SeqsUpTo({ NewAccessDeniedACE(GroupG, AccessMaskGenericWrite),
                                 NewAccessAllowedACE(EveryoneSID, AccessMaskGenericRead),
                                 NewAccessAllowedACE(UserA, AccessMaskGenericAll) },
                               MaxAces) }
    /\ token \in { NewTokenUser(UserA, <<>>), NewTokenUser(UserA, <<GroupG>>) }
    /\ desiredAccess = {}
    /\ options \in { NilOptions,
                     Options(TRUE, PolicyNoWriteUp, IntegrityLevelLow, IntegrityLevelHigh,
                             TestMapping) }
    /\ result = NewResult
    /\ pc = "ready"
    /\ calls \in [1..NumCalls ->
                   { NewCall(d) : d \in { AccessMaskGenericRead,
                                          AccessMaskGenericRead \cup AccessMaskGenericWrite } }]
    /\ buf = <<>> /\ sb = <<>> /\ arg = 0

NextConcurrent ==
    \E c \in 1..NumCalls :
        \/ CallBegin(c)
        \/ CallIntegrity(c)
        \/ CallEmptyDACL(c)
        \/ CallOwner(c)
        \/ CallDeny(c)
        \/ CallAllow(c)
        \/ CallFinal(c)

SpecConcurrent == InitConcurrent /\ [][NextConcurrent]_vars

\* C11: under any interleaving of concurrent AccessCheck calls on the same
\* descriptor, token and options, a call that has returned holds the result
\* AccessCheck gives when run alone on its request, and no step of any call
\* changes the descriptor, the token or the options.
C11_ConcurrentCalls ==
    /\ [](\A c \in 1..NumCalls :
            calls[c].pc = "done" =>
              calls[c].result = AccessCheck(securityDescriptor, token,
                                            calls[c].desiredAccess, options))
    /\ [][/\ securityDescriptor' = securityDescriptor
          /\ token' = token
          /\ options' = options]_vars

\* Both calls went through the two loops of the same DACL and
\* returned different decisions.
C11_Witness ==
    /\ \A c \in 1..NumCalls : calls[c].pc = "done"
    /\ Len(securityDescriptor.DACL.Aces) = MaxAces
    /\ \E c, d \in 1..NumCalls :
         /\ calls[c].result.Granted
         /\ ~calls[d].result.Granted
         /\ calls[d].result.Reason = "Some requested access was explicitly denied"
         /\ \E k \in 1..Len(calls[c].result.Details) :
              calls[c].result.Details[k].Step = "AllowACEMatch"

-----------------------------------------------------------------------------
(* The binary decoders.  A byte is a number in 0..255.  A *bytes.Buffer is *)
(* [data, off]: the bytes it was made from and the number of bytes read so *)
(* far (the cursor); the unread bytes are data[off+1 .. Len(data)].  An    *)
(* error value is the chain of its wrapped errors, outermost first, each   *)
(* [type, msg, index]; nil is the empty chain.  A decoder returns a record *)
(* of its Go results together with the buffer it leaves behind.            *)

Min(a, b) == IF a <= b THEN a ELSE b

\* bytes.NewBuffer(data)
Buffer(data) == [data |-> data, off |-> 0]

\* buf.Len(): the number of unread bytes
BufferLen(b) == Len(b.data) - b.off

\* buf.Next(n): the next min(n, buf.Len()) bytes, and the cursor past them.
\* A negative n makes the slice expression b.buf[b.off : b.off+n] panic
\* (slice bounds out of range) before the cursor is moved.
BufferNext(b, n) ==
    IF n < 0
    THEN [panicked |-> TRUE, data |-> <<>>, buf |-> b]
    ELSE LET m == Min(n, BufferLen(b)) IN
         [panicked |-> FALSE, data |-> SubSeq(b.data, b.off + 1, b.off + m),
          buf |-> [b EXCEPT !.off = @ + m]]

NoError == <<>>

\* SIDInvalidError{msg}
SIDInvalidError(msg) == <<[type |-> "SIDInvalidError", msg |-> msg, index |-> -1]>>

\* A plausible slip: the four bytes are read in big-endian order.
Uint32Mutant(data, offset) ==
    data[offset + 4] + 256 * data[offset + 3] + 65536 * data[offset + 2]
        + 16777216 * data[offset + 1]

\* binary.LittleEndian.Uint32(data[offset : offset+4])
Uint32(data, offset) ==
    data[offset + 1] + 256 * data[offset + 2] + 65536 * data[offset + 3]
        + 16777216 * data[offset + 4]

\* NewSID(buf, sidLength).  panicked is TRUE when the call aborted instead
\* of returning: a negative sidLength makes buf.Next panic, and then nothing
\* is returned and the buffer is left as it was.
NewSID(b, sidLength) ==
    LET nx      == BufferNext(b, sidLength)
        data    == nx.data
        numAuth == data[2]
        fail(msg) == [panicked |-> FALSE, sid |-> ZeroSID, err |-> SIDInvalidError(msg),
                      buf |-> nx.buf]
    IN  IF nx.panicked
        THEN [panicked |-> TRUE, sid |-> ZeroSID, err |-> NoError, buf |-> nx.buf]
        ELSE IF Len(data) < 8 THEN fail("SID data too short")
        ELSE IF data[1] # 1 THEN fail("invalid SID revision")
        ELSE IF numAuth > 15 THEN fail("invalid number of subauthorities")
        ELSE IF Len(data) < 8 + numAuth * 4
             THEN fail("SID data too short for subauthorities")
        ELSE [panicked |-> FALSE,
              sid |-> [Revision       |-> data[1],
                       NumAuthorities |-> numAuth,
                       Authority      |-> SubSeq(data, 3, 8),
                       SubAuthorities |-> [i \in 1..numAuth |->
                                             Uint32(data, 8 + (i - 1) * 4)]],
              err |-> NoError,
              buf |-> nx.buf]

-----------------------------------------------------------------------------
(* NewSID called on its own: buf is the caller's buffer, arg the           *)
(* sidLength it passes.                                                    *)

\* Most sub-authorities of an enumerated SID.
MaxSubAuthorities == 2

\* binary.Write(buf, binary.LittleEndian, uint32(v))
PutUint32(v) ==
    <<v % 256, (v \div 256) % 256, (v \div 65536) % 256, (v \div 16777216) % 256>>

\* The bytes the tests write for a SID: revision, count, authority, words.
SIDBytes(revision, count, authority, words) ==
    <<revision, count>> \o authority \o
    [k \in 1..(4 * Len(words)) |-> PutUint32(words[((k - 1) \div 4) + 1])[((k - 1) % 4) + 1]]

\* Buffers holding a prefix of a SID record, well formed or not, with or
\* without a byte after it; the long ones reach the limit of 15 sub-authorities,
\* and three records of other authority bytes.
SIDBuffers ==
    LET short == { SIDBytes(r, c, <<0, 0, 0, 0, 0, 5>>, w) \o t :
                     r \in {0, 1, 2}, c \in {0, 1, 2, 15, 16},
                     w \in SeqsUpTo({18, 16909060}, MaxSubAuthorities),
                     t \in {<<>>, <<7>>} }
        long  == { SIDBytes(1, c, <<0, 0, 0, 0, 0, 5>>, [i \in 1..n |-> 18]) :
                     c \in {15, 16}, n \in {15, 16} }
        \* whole records of other authorities: S-1-1-0, and S-1-5-18 with
        \* one of the five high authority bytes set
        other == { SIDBytes(1, 1, <<0, 0, 0, 0, 0, 1>>, <<0>>),
                   SIDBytes(1, 1, <<0, 0, 0, 0, 1, 5>>, <<18>>),
                   SIDBytes(1, 1, <<9, 0, 0, 0, 0, 5>>, <<18>>) }
    IN  UNION { { SubSeq(d, 1, l) : l \in 0..Len(d) } : d \in short }
        \cup { SubSeq(d, 1, Len(d) - l) : d \in long, l \in {0, 1} }
        \cup other

\* The text NewSIDFromString is handed is a sequence of characters.
\* strings.Split(s, sep), sep one character: the fields between the separators
RECURSIVE Split(_, _)
Split(s, sep) ==
    IF \A k \in 1..Len(s) : s[k] # sep THEN <<s>>
    ELSE LET k == CHOOSE j \in 1..Len(s) :
                    s[j] = sep /\ \A h \in 1..(j - 1) : s[h] # sep
         IN  <<SubSeq(s, 1, k - 1)>> \o Split(SubSeq(s, k + 1, Len(s)), sep)

\* strings.Join(elems, sep)
RECURSIVE Join(_, _)
Join(elems, sep) ==
    IF Len(elems) = 0 THEN <<>>
    ELSE IF Len(elems) = 1 THEN elems[1]
    ELSE elems[1] \o sep \o Join(Tail(elems), sep)

\* the value of a decimal digit character, -1 for any other character
DigitValue(c) ==
    CASE c = "0" -> 0 [] c = "1" -> 1 [] c = "2" -> 2 [] c = "3" -> 3 [] c = "4" -> 4
      [] c = "5" -> 5 [] c = "6" -> 6 [] c = "7" -> 7 [] c = "8" -> 8 [] c = "9" -> 9
      [] OTHER -> -1

\* strconv.ParseUint(s, 10, 32): [ok, value]; the text must be one or more
\* decimal digits and its value must not exceed 4294967295.
RECURSIVE ParseUintFrom(_, _, _)
ParseUintFrom(s, k, n) ==
    IF k > Len(s) THEN [ok |-> TRUE, value |-> n]
    ELSE IF DigitValue(s[k]) < 0 THEN [ok |-> FALSE, value |-> 0]
    ELSE IF n > 429496729 \/ (n = 429496729 /\ DigitValue(s[k]) > 5)
         THEN [ok |-> FALSE, value |-> 0]
    ELSE ParseUintFrom(s, k + 1, n * 10 + DigitValue(s[k]))

ParseUint(s) ==
    IF Len(s) = 0 THEN [ok |-> FALSE, value |-> 0] ELSE ParseUintFrom(s, 1, 0)

\* A Go int of a 64-bit build: its sign and its magnitude, the magnitude as
\* four 16-bit limbs, the least significant first (the values strconv.Atoi
\* accepts reach 2^63 - 1, past the model's integers).
\* The digits of s from place k on, accumulated into limbs: ten times the
\* limbs plus the digit, [ok, limbs]; not ok on a character that is no
\* digit, and when the magnitude leaves 64 bits.
RECURSIVE ParseMagnitude(_, _, _)
ParseMagnitude(s, k, limbs) ==
    IF k > Len(s) THEN [ok |-> TRUE, limbs |-> limbs]
    ELSE IF DigitValue(s[k]) < 0 THEN [ok |-> FALSE, limbs |-> limbs]
    ELSE LET t1 == limbs[1] * 10 + DigitValue(s[k])
             t2 == limbs[2] * 10 + (t1 \div 65536)
             t3 == limbs[3] * 10 + (t2 \div 65536)
             t4 == limbs[4] * 10 + (t3 \div 65536)
         IN  IF t4 >= 65536 THEN [ok |-> FALSE, limbs |-> limbs]
             ELSE ParseMagnitude(s, k + 1,
                                 <<t1 % 65536, t2 % 65536, t3 % 65536, t4>>)

\* strconv.Atoi(s) on a 64-bit build: [ok, value], value = [neg, limbs]; an
\* optional sign, then one or more decimal digits; the value must lie in
\* -2^63 .. 2^63 - 1.
Atoi(s) ==
    LET signed == Len(s) > 0 /\ s[1] \in {"+", "-"}
        neg    == signed /\ s[1] = "-"
        digits == IF signed THEN Tail(s) ELSE s
        zero   == [neg |-> FALSE, limbs |-> <<0, 0, 0, 0>>]
        int(m) ==
            IF ~m.ok THEN [ok |-> FALSE, value |-> zero]
            ELSE IF m.limbs[4] < 32768
                 THEN [ok |-> TRUE,
                       value |-> [neg |-> neg /\ m.limbs # <<0, 0, 0, 0>>, limbs |-> m.limbs]]
            ELSE IF neg /\ m.limbs = <<0, 0, 0, 32768>>
                 THEN [ok |-> TRUE, value |-> [neg |-> TRUE, limbs |-> m.limbs]]
            ELSE [ok |-> FALSE, value |-> zero]
    IN  IF Len(digits) = 0 THEN [ok |-> FALSE, value |-> zero]
        ELSE int(ParseMagnitude(digits, 1, <<0, 0, 0, 0>>))

\* byte(n) of an int n: the low eight bits of its two's complement
ByteOfInt(n) ==
    IF n.neg THEN (256 - (n.limbs[1] % 256)) % 256 ELSE n.limbs[1] % 256

\* byte(n): the low eight bits
Byte(n) == n % 256

\* NewSIDFromString(sidStr); the message of a sub-authority error leaves out
\* the index it prints.
NewSIDFromString(sidStr) ==
    LET parts     == Split(sidStr, "-")
        revision  == Atoi(parts[2])
        authority == Atoi(parts[3])
        subs      == [i \in 1..(Len(parts) - 3) |-> ParseUint(parts[i + 3])]
        fail(msg) == [sid |-> ZeroSID, err |-> SIDInvalidError(msg)]
    IN  IF Len(parts) < 3 THEN fail("invalid SID format")
        ELSE IF parts[1] # <<"S">> THEN fail("SID must start with S-")
        ELSE IF ~revision.ok THEN fail("invalid revision")
        ELSE IF ~authority.ok THEN fail("invalid authority")
        ELSE IF \E i \in 1..Len(subs) : ~subs[i].ok THEN fail("invalid sub-authority")
        ELSE [sid |-> [Revision       |-> ByteOfInt(revision.value),
                       NumAuthorities |-> Byte(Len(subs)),
                       Authority      |-> <<0, 0, 0, 0, 0, ByteOfInt(authority.value)>>,
                       SubAuthorities |-> [i \in 1..Len(subs) |-> subs[i].value]],
              err |-> NoError]

\* Most dash-separated fields of an enumerated text.
MaxFields == 4

\* The texts handed to NewSIDFromString: up to MaxFields fields joined by
\* dashes, the first an "S" or not, the others numbers or not (some of them
\* past 32 bits or at the edge of 64), and the text
\* of a SID of sixteen sub-authorities.
SIDTexts ==
    LET \* "9223372036854775808", the magnitude of the least int of a 64-bit build
        Int64Edge ==
            <<"9", "2", "2", "3", "3", "7", "2", "0", "3", "6", "8", "5", "4", "7", "7", "5",
              "8", "0", "8">>
        field(k) == IF k = 1 THEN { <<"S">>, <<"s">>, <<>> }
                    ELSE IF k = 2 THEN { <<"1">>, <<"2">>, <<"2", "5", "7">>, <<"x">>,
                                         <<"4", "2", "9", "4", "9", "6", "7", "2", "9", "7">> }
                    ELSE IF k = 3 THEN { <<"5">>, <<"+", "5">>, <<"2", "6", "1">>, <<>>,
                                         <<"4", "2", "9", "4", "9", "6", "7", "2", "9", "6">>,
                                         <<"-">> \o Int64Edge, Int64Edge }
                    ELSE { <<"1", "8">>, <<"0", "0", "7">>, <<"+", "1">>,
                           <<"4", "2", "9", "4", "9", "6", "7", "2", "9", "6">> }
        fields == UNION { { f \in [1..n -> UNION { field(k) : k \in 1..4 }] :
                              \A k \in 1..n : f[k] \in field(k) } : n \in 0..MaxFields }
    IN  { Join(f, <<"-">>) : f \in fields }
        \cup { Join(<<<<"S">>, <<"1">>, <<"5">>>> \o [i \in 1..16 |-> <<"0">>], <<"-">>) }

\* The caller holds either a buffer and a sidLength for NewSID (pc "ready")
\* or a text for NewSIDFromString (pc "text").
InitNewSID ==
    /\ securityDescriptor = NoDescriptor
    /\ token = NoToken
    /\ desiredAccess = {}
    /\ options = NilOptions
    /\ result = [panicked |-> FALSE, sid |-> ZeroSID, err |-> NoError]
    /\ calls = <<>> /\ sb = <<>>
    /\ \/ /\ pc = "ready"
          /\ \E d \in SIDBuffers :
               /\ buf = Buffer(d)
               /\ arg \in (-1..(8 + 4 * MaxSubAuthorities + 2)) \cup (Len(d)..(Len(d) + 1))
       \/ /\ pc = "text"
          /\ buf = Buffer(<<>>)
          /\ arg \in SIDTexts

DoNewSID ==
    /\ pc = "ready"
    /\ LET r == NewSID(buf, arg) IN
         /\ result' = [panicked |-> r.panicked, sid |-> r.sid, err |-> r.err]
         /\ buf' = r.buf
    /\ pc' = "done"
    /\ UNCHANGED <<securityDescriptor, token, desiredAccess, options, calls, sb, arg>>

DoNewSIDFromString ==
    /\ pc = "text"
    /\ LET r == NewSIDFromString(arg) IN
         result' = [panicked |-> FALSE, sid |-> r.sid, err |-> r.err]
    /\ pc' = "parsed"
    /\ UNCHANGED <<securityDescriptor, token, desiredAccess, options, calls, buf, sb, arg>>

NextNewSID == DoNewSID \/ DoNewSIDFromString

SpecNewSID == InitNewSID /\ [][NextNewSID]_vars

\* The window NewSID was handed, for a sidLength that is a length
\* (sidLength >= 0): the first min(sidLength, available) bytes.
Window == SubSeq(buf.data, 1, Min(arg, Len(buf.data)))

\* A negative sidLength is no window: the call panics in buf.Next and leaves
\* the buffer as it was.
NewSIDNegativeLengthPanics ==
    (pc = "done" /\ arg < 0) => (result.panicked /\ buf.off = 0)

\* C12: on a window of sidLength bytes (sidLength >= 0)
\* NewSID returns a SIDInvalidError when the window holds fewer than 8
\* bytes, when its revision byte is not 1, when its count byte exceeds 15,
\* or when it holds fewer than 8 + 4*count bytes; in every other case it
\* succeeds with the revision, the count, the six authority bytes and the
\* count sub-authorities of the window, each the little-endian value of its
\* four bytes; the bytes 1,1,0,0,0,0,0,5,18,0,0,0 decode to S-1-5-18.
C12_NewSID ==
    (pc = "done" /\ arg >= 0) =>
      LET w == Window
          rejected == \/ Len(w) < 8
                      \/ w[1] # 1
                      \/ w[2] > 15
                      \/ Len(w) < 8 + 4 * w[2]
      IN  /\ ~result.panicked
          /\ rejected =>
            /\ Len(result.err) = 1
            /\ result.err[1].type = "SIDInvalidError"
          /\ ~rejected =>
            /\ result.err = NoError
            /\ result.sid.Revision = 1
            /\ result.sid.NumAuthorities = w[2]
            /\ result.sid.Authority = SubSeq(w, 3, 8)
            /\ Len(result.sid.SubAuthorities) = w[2]
            /\ \A i \in 1..w[2] :
                 PutUint32(result.sid.SubAuthorities[i]) = SubSeq(w, 8 + 4 * i - 3, 8 + 4 * i)
          /\ w = <<1, 1, 0, 0, 0, 0, 0, 5, 18, 0, 0, 0>> =>
            /\ result.err = NoError
            /\ String(result.sid) = <<1, 5, 18>>

\* The twelve bytes of S-1-5-18 were decoded.
C12_Witness ==
    /\ pc = "done"
    /\ Window = <<1, 1, 0, 0, 0, 0, 0, 5, 18, 0, 0, 0>>
    /\ result.err = NoError
    /\ String(result.sid) = <<1, 5, 18>>

\* The SID invariant of the data model.
SIDInvariant(sid) ==
    /\ sid.Revision = 1
    /\ sid.NumAuthorities \in 0..15
    /\ sid.NumAuthorities = Len(sid.SubAuthorities)
    /\ Len(sid.Authority) = 6

\* C13: every SID returned without error by NewSID or by NewSIDFromString
\* has revision 1, a count in 0..15 equal to the number of its
\* sub-authorities, and an authority of exactly six bytes.
C13_SIDInvariant ==
    (pc \in {"done", "parsed"} /\ ~result.panicked /\ result.err = NoError)
        => SIDInvariant(result.sid)

-----------------------------------------------------------------------------
(* The ACE, ACL and security-descriptor decoders.  The number a message    *)
(* prints is kept in the error's index field for "reading ACE %d" and left *)
(* out elsewhere.                                                          *)

\* fmt.Errorf(msg + ": %w", err), and fmt.Errorf(msg) when err is nil
Errorf(msg, index, err) == <<[type |-> "wrapError", msg |-> msg, index |-> index]>> \o err

\* binary.Read(buf, binary.LittleEndian, &x) for an x of n bytes: the n
\* bytes when that many are unread; otherwise every unread byte is consumed,
\* x is left as it was, and the error is io.EOF or io.ErrUnexpectedEOF.
BinaryRead(b, n) ==
    IF BufferLen(b) >= n
    THEN [data |-> SubSeq(b.data, b.off + 1, b.off + n), err |-> NoError,
          buf |-> [b EXCEPT !.off = @ + n]]
    ELSE [data |-> <<>>,
          err |-> <<[type |-> IF BufferLen(b) = 0 THEN "EOF" ELSE "ErrUnexpectedEOF",
                     msg |-> "", index |-> -1]>>,
          buf |-> [b EXCEPT !.off = Len(b.data)]]

\* a little-endian uint16
Uint16(data, offset) == data[offset + 1] + 256 * data[offset + 2]

\* a little-endian uint32 read as an access mask: the set of its set bits
MaskBits(data, offset) ==
    { i \in 0..31 : (data[offset + (i \div 8) + 1] \div (2 ^ (i % 8))) % 2 = 1 }

\* NewGUID(buf): four reads, of 4, 2, 2 and 8 bytes.  pkg/guid.go drops the
\* errors of the reads; the NewGUID the ACE decoder calls returns an error
\* as well.  reportsError tells which of the two is linked in: with it, the
\* first failed read is returned as the error.
NewGUID(b, reportsError) ==
    LET guid(r1, r2, r3, r4) ==
            [guid |-> [Data1 |-> IF r1.err = NoError THEN SubSeq(r1.data, 1, 4)
                                 ELSE <<0, 0, 0, 0>>,
                       Data2 |-> IF r2.err = NoError THEN Uint16(r2.data, 0) ELSE 0,
                       Data3 |-> IF r3.err = NoError THEN Uint16(r3.data, 0) ELSE 0,
                       Data4 |-> IF r4.err = NoError THEN r4.data
                                 ELSE <<0, 0, 0, 0, 0, 0, 0, 0>>],
             err |-> LET first == IF r1.err # NoError THEN r1.err
                                  ELSE IF r2.err # NoError THEN r2.err
                                  ELSE IF r3.err # NoError THEN r3.err
                                  ELSE r4.err
                     IN  IF reportsError /\ first # NoError
                         THEN Errorf("reading GUID", -1, first) ELSE NoError,
             buf |-> r4.buf]
        read4(r1, r2, r3) == guid(r1, r2, r3, BinaryRead(r3.buf, 8))
        read3(r1, r2) == read4(r1, r2, BinaryRead(r2.buf, 2))
        read2(r1) == read3(r1, BinaryRead(r1.buf, 2))
    IN  read2(BinaryRead(b, 4))

\* NewACEHeader(buf)
NewACEHeader(b) ==
    LET header(r) ==
            IF r.err # NoError
            THEN [header |-> [Type |-> 0, Flags |-> 0, Size |-> 0],
                  err |-> Errorf("reading ACE header", -1, r.err), buf |-> r.buf]
            ELSE [header |-> [Type |-> r.data[1], Flags |-> r.data[2],
                              Size |-> Uint16(r.data, 2)],
                  err |-> NoError, buf |-> r.buf]
    IN  header(BinaryRead(b, 4))

\* A plausible slip: the error of the SID decoder is dropped.
NewBasicAceMutant(b, totalSize) ==
    LET body(s) == [oa |-> BasicAce(s.sid), err |-> NoError, buf |-> s.buf]
    IN  IF totalSize - 8 <= 0
        THEN [oa |-> BasicAce(ZeroSID), err |-> Errorf("invalid ACE size for SID", -1, NoError),
              buf |-> b]
        ELSE body(NewSID(b, totalSize - 8))

\* NewBasicAce(buf, totalSize)
NewBasicAce(b, totalSize) ==
    LET body(s) ==
            IF s.err # NoError
            THEN [oa |-> BasicAce(ZeroSID),
                  err |-> Errorf("parsing SID in basic ACE", -1, s.err), buf |-> s.buf]
            ELSE [oa |-> BasicAce(s.sid), err |-> NoError, buf |-> s.buf]
    IN  IF totalSize - 8 <= 0
        THEN [oa |-> BasicAce(ZeroSID), err |-> Errorf("invalid ACE size for SID", -1, NoError),
              buf |-> b]
        ELSE body(NewSID(b, totalSize - 8))

\* ACEInheritanceFlagsObjectTypePresent (0x1) is set in flags
ObjectTypePresent(flags) == flags % 2 = 1

\* ACEInheritanceFlagsInheritedObjectTypePresent (0x2) is set in flags
InheritedObjectTypePresent(flags) == (flags \div 2) % 2 = 1

\* NewAdvancedAce(buf, totalSize); the GUIDs and the flags are not kept in
\* the body of the model.
NewAdvancedAce(b, totalSize, reportsError) ==
    LET fail(msg, err, bb) == [oa |-> AdvancedAce(ZeroSID), err |-> Errorf(msg, -1, err),
                               buf |-> bb]
        noGUID(bb) == [err |-> NoError, buf |-> bb]
        sid(s) ==
            IF s.err # NoError THEN fail("parsing SID in advanced ACE", s.err, s.buf)
            ELSE [oa |-> AdvancedAce(s.sid), err |-> NoError, buf |-> s.buf]
        inherited(g2, offset) ==
            IF g2.err # NoError
            THEN fail("reading inherited object type GUID", g2.err, g2.buf)
            ELSE IF totalSize - offset <= 0
            THEN fail("invalid advanced ACE size for SID", NoError, g2.buf)
            ELSE sid(NewSID(g2.buf, totalSize - offset))
        object(flags, g1, offset) ==
            IF g1.err # NoError THEN fail("reading object type GUID", g1.err, g1.buf)
            ELSE IF InheritedObjectTypePresent(flags)
            THEN inherited(NewGUID(g1.buf, reportsError), offset + 16)
            ELSE inherited(noGUID(g1.buf), offset)
        flagsRead(f, flags) ==
            IF f.err # NoError THEN fail("reading ACE inheritance flags", f.err, f.buf)
            ELSE IF ObjectTypePresent(flags)
            THEN object(flags, NewGUID(f.buf, reportsError), 12 + 16)
            ELSE object(flags, noGUID(f.buf), 12)
        read(f) == flagsRead(f, IF f.err # NoError THEN 0 ELSE Uint32(f.data, 0))
    IN  read(BinaryRead(b, 4))

\* The first case of NewAce's switch: AccessAllowed, AccessDenied,
\* SystemAudit, SystemAlarm and their Callback variants.
IsBasicAceType(type) == type \in {0, 1, 2, 3, 9, 10, 13, 14}

\* The second case: the Object and CallbackObject variants.
IsObjectAceType(type) == type \in {5, 6, 7, 8, 11, 12, 15, 16}

\* NewAce(buf)
NewAce(b, reportsError) ==
    LET ace(h, value, oa) == [Header |-> h.header, AccessMask |-> [Value |-> value],
                              ObjectAce |-> oa]
        body(h, value, o, msg) ==
            [ace |-> ace(h, value, o.oa),
             err |-> IF o.err # NoError THEN Errorf(msg, -1, o.err) ELSE NoError,
             buf |-> o.buf]
        mask(h, m) ==
            IF m.err # NoError
            THEN [ace |-> ace(h, {}, NilObjectAce),
                  err |-> Errorf("reading ACE access mask", -1, m.err), buf |-> m.buf]
            ELSE IF IsBasicAceType(h.header.Type)
            THEN body(h, MaskBits(m.data, 0), NewBasicAce(m.buf, h.header.Size),
                      "parsing basic ACE")
            ELSE IF IsObjectAceType(h.header.Type)
            THEN body(h, MaskBits(m.data, 0),
                      NewAdvancedAce(m.buf, h.header.Size, reportsError),
                      "parsing advanced ACE")
            ELSE [ace |-> ace(h, MaskBits(m.data, 0), NilObjectAce),
                  err |-> Errorf("unknown ACE type", -1, NoError), buf |-> m.buf]
        header(h) ==
            IF h.err # NoError
            THEN [ace |-> ace(h, {}, NilObjectAce),
                  err |-> Errorf("reading ACE header", -1, h.err), buf |-> h.buf]
            ELSE mask(h, BinaryRead(h.buf, 4))
    IN  header(NewACEHeader(b))

\* NewACLHeader(buf)
NewACLHeader(b) ==
    LET header(r) ==
            IF r.err # NoError
            THEN [header |-> [Revision |-> 0, Sbz1 |-> 0, Size |-> 0, AceCount |-> 0,
                              Sbz2 |-> 0],
                  err |-> Errorf("reading ACL header", -1, r.err), buf |-> r.buf]
            ELSE [header |-> [Revision |-> r.data[1], Sbz1 |-> r.data[2],
                              Size |-> Uint16(r.data, 2), AceCount |-> Uint16(r.data, 4),
                              Sbz2 |-> Uint16(r.data, 6)],
                  err |-> NoError, buf |-> r.buf]
    IN  header(BinaryRead(b, 8))

\* The loop of NewACL from Go index i, with the ACEs appended so far.
RECURSIVE NewACLLoop(_, _, _, _, _)
NewACLLoop(header, i, aces, b, reportsError) ==
    LET next(a) ==
            IF a.err # NoError
            THEN [acl |-> [Header |-> header, Aces |-> aces],
                  err |-> Errorf("reading ACE", i, a.err), buf |-> a.buf]
            ELSE NewACLLoop(header, i + 1, Append(aces, a.ace), a.buf, reportsError)
    IN  IF i >= header.AceCount
        THEN [acl |-> [Header |-> header, Aces |-> aces], err |-> NoError, buf |-> b]
        ELSE next(NewAce(b, reportsError))

\* NewACL(buf)
NewACL(b, reportsError) ==
    LET aces(h) ==
            IF h.err # NoError
            THEN [acl |-> [Header |-> h.header, Aces |-> <<>>],
                  err |-> Errorf("reading ACL header", -1, h.err), buf |-> h.buf]
            ELSE NewACLLoop(h.header, 0, <<>>, h.buf, reportsError)
    IN  aces(NewACLHeader(b))

\* A uint32 offset of the NTSD header, read little-endian.  The full range
\* 0..2^32-1 is kept, as the two 16-bit halves of the value:
\* value = hi * 65536 + lo.
Offset(data, offset) ==
    [lo |-> Uint16(data, offset), hi |-> Uint16(data, offset + 2)]

\* sidSize := OffsetGroup - OffsetOwner, then int(sidSize) on a 64-bit build.
\* The subtraction is the uint32 one: it is taken modulo 2^32, so a group
\* offset below the owner offset wraps around (owner 0xFFFFFFF4, group 0
\* gives 12).  The result is the value itself when it is below 2^31; a value
\* from 2^31 on is only ever handed to buf.Next, which cuts it to the unread
\* length (itself below 2^31), so 2^31 - 1 stands for it.
SidSize(offsetOwner, offsetGroup) ==
    LET borrow == IF offsetGroup.lo < offsetOwner.lo THEN 1 ELSE 0
        lo     == offsetGroup.lo - offsetOwner.lo + 65536 * borrow
        hi     == (offsetGroup.hi - offsetOwner.hi - borrow + 65536) % 65536
    IN  IF hi < 32768 THEN hi * 65536 + lo ELSE 2147483647

\* NewNTSDHeader(buf)
NewNTSDHeader(b) ==
    LET header(r) ==
            IF r.err # NoError
            THEN [header |-> [Revision |-> 0, Sbz1 |-> 0, Control |-> 0,
                              OffsetOwner |-> Offset(<<0, 0, 0, 0>>, 0),
                              OffsetGroup |-> Offset(<<0, 0, 0, 0>>, 0),
                              OffsetSacl |-> Offset(<<0, 0, 0, 0>>, 0),
                              OffsetDacl |-> Offset(<<0, 0, 0, 0>>, 0)],
                  err |-> Errorf("reading NTSD header", -1, r.err), buf |-> r.buf]
            ELSE [header |-> [Revision |-> r.data[1], Sbz1 |-> r.data[2],
                              Control |-> Uint16(r.data, 2),
                              OffsetOwner |-> Offset(r.data, 4),
                              OffsetGroup |-> Offset(r.data, 8),
                              OffsetSacl |-> Offset(r.data, 12),
                              OffsetDacl |-> Offset(r.data, 16)],
                  err |-> NoError, buf |-> r.buf]
    IN  header(BinaryRead(b, 20))

\* ObjectAce.GetPrincipal()
GetPrincipal(oa) == oa.SecurityIdentifier

\* A plausible slip: the error of the group SID is dropped.
OwnerAndGroupMutant(ntsd, b, sidSize) ==
    LET group(o, g) ==
            [ntsd |-> [ntsd EXCEPT !.Owner = o.sid, !.Group = g.sid], err |-> NoError,
             buf |-> g.buf]
        owner(o) ==
            IF o.err # NoError
            THEN [ntsd |-> ntsd, err |-> Errorf("parsing owner SID", -1, o.err), buf |-> o.buf]
            ELSE group(o, NewSID(o.buf, sidSize))
    IN  owner(NewSID(b, sidSize))

\* The end of NewNtSecurityDescriptor, for a sidSize that is not 0: the
\* owner SID and the group SID, each read from a window of sidSize bytes.
OwnerAndGroup(ntsd, b, sidSize) ==
    LET group(o, g) ==
            IF g.err # NoError
            THEN [ntsd |-> [ntsd EXCEPT !.Owner = o.sid],
                  err |-> Errorf("parsing group SID", -1, g.err), buf |-> g.buf]
            ELSE [ntsd |-> [ntsd EXCEPT !.Owner = o.sid, !.Group = g.sid], err |-> NoError,
                  buf |-> g.buf]
        owner(o) ==
            IF o.err # NoError
            THEN [ntsd |-> ntsd, err |-> Errorf("parsing owner SID", -1, o.err), buf |-> o.buf]
            ELSE group(o, NewSID(o.buf, sidSize))
    IN  owner(NewSID(b, sidSize))

\* NewNtSecurityDescriptor(ntsdBytes) on a 64-bit build, where int(sidSize)
\* is never negative.  The SACL of the result is never filled in and is left
\* out.
NewNtSecurityDescriptor(ntsdBytes, reportsError) ==
    LET descriptor(h, acl) ==
            [Header |-> h.header, DACL |-> acl, Owner |-> ZeroSID, Group |-> ZeroSID]
        sids(ntsd, d, sidSize) ==
            IF sidSize = 0
            THEN [ntsd |-> IF Len(d.acl.Aces) > 0
                           THEN [ntsd EXCEPT
                                   !.Owner = GetPrincipal(d.acl.Aces[1].ObjectAce),
                                   !.Group = GetPrincipal(d.acl.Aces[1].ObjectAce)]
                           ELSE ntsd,
                  err |-> NoError, buf |-> d.buf]
            ELSE OwnerAndGroup(ntsd, d.buf, sidSize)
        dacl(h, d) ==
            IF d.err # NoError
            THEN [ntsd |-> descriptor(h, d.acl), err |-> Errorf("parsing DACL", -1, d.err),
                  buf |-> d.buf]
            ELSE sids(descriptor(h, d.acl), d,
                      SidSize(h.header.OffsetOwner, h.header.OffsetGroup))
        header(h) ==
            IF h.err # NoError
            THEN [ntsd |-> descriptor(h, [Header |-> [Revision |-> 0, Sbz1 |-> 0, Size |-> 0,
                                                      AceCount |-> 0, Sbz2 |-> 0],
                                          Aces |-> <<>>]),
                  err |-> Errorf("parsing security descriptor header", -1, h.err),
                  buf |-> h.buf]
            ELSE dacl(h, NewACL(h.buf, reportsError))
    IN  header(NewNTSDHeader(Buffer(ntsdBytes)))

-----------------------------------------------------------------------------
(* The decoders called on their own.  arg.op names the decoder the caller  *)
(* calls on buf (for NewNtSecurityDescriptor, the buffer it makes of its   *)
(* argument), arg.reportsError the NewGUID that is linked in, and          *)
(* arg.totalSize the size handed to the two ACE body decoders.  The buffer *)
(* of a header decoder may have been read from before.                     *)

\* The inputs of each decoder.  ACE records are built from a type, a declared
\* Size, a mask and a body; ACLs from a declared Size, a declared count and
\* records; descriptors from the owner and group offsets and what follows
\* the header.
DecodeInputs ==
    LET
        \* The bytes of an ACE record: header (type, flags 0, size), mask, body.
        ACEBytes(type, size, mask, body) == <<type, 0, size % 256, size \div 256>> \o mask \o body

        \* The bytes of an ACL: header (revision 2, size, count), ACE records.
        ACLBytes(size, count, records) ==
            <<2, 0, size % 256, size \div 256, count % 256, count \div 256, 0, 0>> \o records

        \* The bytes of a security descriptor: header (revision 1, control 0x8004,
        \* the four offsets), then the rest.
        NTSDBytes(offsetOwner, offsetGroup, rest) ==
            <<1, 0, 4, 128>> \o PutUint32(offsetOwner) \o PutUint32(offsetGroup)
                \o PutUint32(0) \o PutUint32(20) \o rest
        \* The same with the two offsets given as their four bytes, for offsets
        \* from 2^31 on.
        NTSDHigh(ownerBytes, groupBytes, rest) ==
            <<1, 0, 4, 128>> \o ownerBytes \o groupBytes \o PutUint32(0) \o PutUint32(20) \o rest

        \* S-1-5-18, twelve bytes
        SystemSIDBytes == SIDBytes(1, 1, <<0, 0, 0, 0, 0, 5>>, <<18>>)

        \* S-1-5-32-544, sixteen bytes
        AdminsSIDBytes == SIDBytes(1, 2, <<0, 0, 0, 0, 0, 5>>, <<32, 544>>)

        \* ACE records every ACL of the model is made of: a basic allow ACE of Size
        \* 20, a basic deny ACE of Size 24 (a 12-byte SID and four more bytes), an
        \* object ACE with an object-type GUID (Size 40), a basic ACE whose Size
        \* leaves no SID, and an ACE of a type the switch does not list.
        ACLRecords ==
            { ACEBytes(0, 20, <<0, 0, 0, 128>>, SystemSIDBytes),
              ACEBytes(1, 24, <<0, 0, 4, 0>>, SystemSIDBytes \o <<0, 0, 0, 0>>),
              ACEBytes(5, 40, <<0, 1, 0, 0>>, PutUint32(1) \o [i \in 1..16 |-> i] \o SystemSIDBytes),
              ACEBytes(0, 8, <<0, 0, 0, 128>>, SystemSIDBytes),
              ACEBytes(4, 20, <<0, 0, 0, 128>>, SystemSIDBytes) }

        \* More ACE records for NewAce: Sizes that leave 4 bytes, or nothing after
        \* two GUIDs, for the SID; a SID of revision 2; an object ACE without GUIDs;
        \* a callback ACE with a 16-byte SID; an inherited-object-type GUID alone.
        ACERecords ==
            ACLRecords \cup
            { ACEBytes(0, 12, <<0, 0, 0, 128>>, SystemSIDBytes),
              ACEBytes(6, 44, <<0, 0, 0, 64>>,
                       PutUint32(3) \o [i \in 1..32 |-> i] \o SystemSIDBytes),
              ACEBytes(1, 20, <<0, 0, 0, 64>>, SIDBytes(2, 1, <<0, 0, 0, 0, 0, 5>>, <<18>>)),
              ACEBytes(5, 24, <<0, 0, 0, 128>>, PutUint32(0) \o SystemSIDBytes),
              ACEBytes(9, 24, <<0, 0, 0, 128>>, AdminsSIDBytes),
              ACEBytes(7, 40, <<0, 0, 0, 128>>, PutUint32(2) \o [i \in 1..16 |-> i] \o SystemSIDBytes),
              ACEBytes(17, 20, <<0, 0, 0, 128>>, SystemSIDBytes) }

        Prefixes(d) == { SubSeq(d, 1, l) : l \in 0..Len(d) }

        \* ACLs: up to MaxAces records, a declared count that is or is not the
        \* number of records, a declared Size that is or is not the length of the
        \* ACL, the last four bytes there or not, two bytes after the ACL or none.
        ACLInputs ==
            UNION { { SubSeq(ACLBytes(size, count, Join(recs, <<>>)), 1,
                             8 + Len(Join(recs, <<>>)) - cut) \o tail :
                        size \in {8 + Len(Join(recs, <<>>)), 8},
                        count \in 0..(Len(recs) + 1),
                        cut \in {0, IF Len(recs) = 0 THEN 0 ELSE 4},
                        tail \in {<<>>, <<9, 9>>} } :
                    recs \in SeqsUpTo(ACLRecords, MaxAces) }

        \* Security descriptors: a DACL of up to MaxAces records, owner and group
        \* offsets 0, 8, 12 or 16 apart or as far apart as the owner SID is long,
        \* and after the DACL two SIDs, each S-1-5-18, S-1-5-32-544, a SID of
        \* revision 2, or missing; and every prefix of three of them, ten zero
        \* bytes and ten bytes of 255.
        NTSDInputs ==
            LET dacls == { ACLBytes(8 + Len(Join(recs, <<>>)), Len(recs), Join(recs, <<>>)) :
                             recs \in SeqsUpTo({ ACEBytes(0, 20, <<0, 0, 0, 128>>, SystemSIDBytes),
                                                 ACEBytes(1, 24, <<0, 0, 4, 0>>, AdminsSIDBytes),
                                                 ACEBytes(0, 8, <<0, 0, 0, 128>>, SystemSIDBytes) },
                                               MaxAces) }
                sids  == { SystemSIDBytes, AdminsSIDBytes,
                           SIDBytes(2, 1, <<0, 0, 0, 0, 0, 5>>, <<18>>), <<>> }
                full  == { NTSDBytes(20, 20 + delta, dacl \o owner \o group) :
                             delta \in {0, 8, 12, 16}, dacl \in dacls, owner \in sids, group \in sids }
                \* the header gives the places of the two SIDs behind the DACL
                laid  == { NTSDBytes(20 + Len(dacl), 20 + Len(dacl) + Len(owner),
                                     dacl \o owner \o group) :
                             dacl \in dacls, owner \in sids \ {<<>>}, group \in sids }
                \* the group offset is the smaller one
                back  == { NTSDBytes(40, 28, dacl \o owner \o group) :
                             dacl \in dacls, owner \in {SystemSIDBytes, AdminsSIDBytes, <<>>},
                             group \in {SystemSIDBytes, <<>>} }
                \* offsets from 2^31 on: 12 apart modulo 2^32, 12 apart without
                \* a wrap, as far apart as can be, and equal
                high  == { NTSDHigh(o[1], o[2], dacl \o owner \o group) :
                             o \in { <<<<244, 255, 255, 255>>, <<0, 0, 0, 0>>>>,
                                     <<<<0, 0, 0, 128>>, <<12, 0, 0, 128>>>>,
                                     <<<<0, 0, 0, 0>>, <<255, 255, 255, 255>>>>,
                                     <<<<255, 255, 255, 255>>, <<255, 255, 255, 255>>>> },
                             dacl \in { ACLBytes(8, 0, <<>>),
                                        ACLBytes(28, 1, ACEBytes(0, 20, <<0, 0, 0, 128>>,
                                                                 SystemSIDBytes)) },
                             owner \in {SystemSIDBytes, AdminsSIDBytes},
                             group \in {SystemSIDBytes, <<>>} }
            IN  full \cup laid \cup back \cup high
                \cup UNION { Prefixes(NTSDBytes(20, 20 + delta,
                                                ACLBytes(28, 1, ACEBytes(0, 20, <<0, 0, 0, 128>>,
                                                                         SystemSIDBytes))
                                                \o SystemSIDBytes \o SystemSIDBytes)) :
                               delta \in {0, 12} }
                \cup { [i \in 1..10 |-> 0], [i \in 1..10 |-> 255] }
        \* The bodies of ACEs, for the two body decoders: a SID, and inheritance
        \* flags, the GUIDs they announce (or not) and a SID; and their prefixes.
        BasicBodies ==
            UNION { Prefixes(b \o <<9, 9>>) :
                      b \in { SystemSIDBytes, AdminsSIDBytes,
                              SIDBytes(2, 1, <<0, 0, 0, 0, 0, 5>>, <<18>>) } }
        AdvancedBodies ==
            UNION { Prefixes(b \o <<9, 9>>) :
                      b \in { PutUint32(0) \o SystemSIDBytes,
                              PutUint32(1) \o [i \in 1..16 |-> i] \o SystemSIDBytes,
                              PutUint32(2) \o [i \in 1..16 |-> i] \o AdminsSIDBytes,
                              PutUint32(3) \o [i \in 1..32 |-> i] \o SystemSIDBytes } }
    IN  [NewAce |-> UNION { Prefixes(r \o <<9, 9>>) : r \in ACERecords },
         NewACL |-> ACLInputs,
         NewNtSecurityDescriptor |-> NTSDInputs,
         NewGUID |-> Prefixes([i \in 1..16 |-> i] \o <<9, 9>>)
                         \cup { <<98, 111, 111, 109>> },
         NewACEHeader |-> Prefixes(<<0, 1, 20, 0, 9>>) \cup Prefixes(<<5, 2, 40, 1, 9>>),
         NewBasicAce |-> BasicBodies,
         NewAdvancedAce |-> AdvancedBodies,
         NewACLHeader |-> Prefixes(ACLBytes(28, 1, <<9>>)) \cup Prefixes(ACLBytes(8, 0, <<>>)),
         NewNTSDHeader |-> Prefixes(NTSDBytes(20, 32, <<9, 9>>))
                               \cup Prefixes(NTSDBytes(40, 28, <<>>))
                               \cup { [i \in 1..20 |-> 255] }]

InitDecode ==
    /\ securityDescriptor = NoDescriptor
    /\ token = NoToken
    /\ desiredAccess = {}
    /\ options = NilOptions
    /\ result = [err |-> NoError]
    /\ pc = "ready"
    /\ calls = <<>> /\ sb = <<>>
    /\ \/ \E op \in {"NewAce", "NewACL", "NewNtSecurityDescriptor", "NewGUID"},
             reportsError \in BOOLEAN :
            /\ arg = [op |-> op, reportsError |-> reportsError, totalSize |-> 0]
            /\ \E d \in DecodeInputs[op] : buf = Buffer(d)
       \/ \E op \in {"NewACEHeader", "NewACLHeader", "NewNTSDHeader"} :
            /\ arg = [op |-> op, reportsError |-> TRUE, totalSize |-> 0]
            /\ \E d \in DecodeInputs[op], off \in 0..1 :
                 off <= Len(d) /\ buf = [data |-> d, off |-> off]
       \/ \E op \in {"NewBasicAce", "NewAdvancedAce"}, reportsError \in BOOLEAN,
             totalSize \in {0, 8, 12, 20, 24, 28, 40, 44, 60} :
            /\ arg = [op |-> op, reportsError |-> reportsError, totalSize |-> totalSize]
            /\ \E d \in DecodeInputs[op] : buf = Buffer(d)

DoNewGUID ==
    /\ pc = "ready" /\ arg.op = "NewGUID"
    /\ LET r == NewGUID(buf, arg.reportsError) IN
         /\ result' = [guid |-> r.guid, err |-> r.err]
         /\ buf' = r.buf
    /\ pc' = "done"
    /\ UNCHANGED <<securityDescriptor, token, desiredAccess, options, calls, sb, arg>>

DoNewAce ==
    /\ pc = "ready" /\ arg.op = "NewAce"
    /\ LET r == NewAce(buf, arg.reportsError) IN
         /\ result' = [ace |-> r.ace, err |-> r.err]
         /\ buf' = r.buf
    /\ pc' = "done"
    /\ UNCHANGED <<securityDescriptor, token, desiredAccess, options, calls, sb, arg>>

DoNewACL ==
    /\ pc = "ready" /\ arg.op = "NewACL"
    /\ LET r == NewACL(buf, arg.reportsError) IN
         /\ result' = [acl |-> r.acl, err |-> r.err]
         /\ buf' = r.buf
    /\ pc' = "done"
    /\ UNCHANGED <<securityDescriptor, token, desiredAccess, options, calls, sb, arg>>

DoNewNtSecurityDescriptor ==
    /\ pc = "ready" /\ arg.op = "NewNtSecurityDescriptor"
    /\ LET r == NewNtSecurityDescriptor(buf.data, arg.reportsError) IN
         /\ result' = [ntsd |-> r.ntsd, err |-> r.err]
         /\ buf' = r.buf
    /\ pc' = "done"
    /\ UNCHANGED <<securityDescriptor, token, desiredAccess, options, calls, sb, arg>>

DoNewACEHeader ==
    /\ pc = "ready" /\ arg.op = "NewACEHeader"
    /\ LET r == NewACEHeader(buf) IN
         /\ result' = [header |-> r.header, err |-> r.err]
         /\ buf' = r.buf
    /\ pc' = "done"
    /\ UNCHANGED <<securityDescriptor, token, desiredAccess, options, calls, sb, arg>>

DoNewBasicAce ==
    /\ pc = "ready" /\ arg.op = "NewBasicAce"
    /\ LET r == NewBasicAce(buf, arg.totalSize) IN
         /\ result' = [oa |-> r.oa, err |-> r.err]
         /\ buf' = r.buf
    /\ pc' = "done"
    /\ UNCHANGED <<securityDescriptor, token, desiredAccess, options, calls, sb, arg>>

DoNewAdvancedAce ==
    /\ pc = "ready" /\ arg.op = "NewAdvancedAce"
    /\ LET r == NewAdvancedAce(buf, arg.totalSize, arg.reportsError) IN
         /\ result' = [oa |-> r.oa, err |-> r.err]
         /\ buf' = r.buf
    /\ pc' = "done"
    /\ UNCHANGED <<securityDescriptor, token, desiredAccess, options, calls, sb, arg>>

DoNewACLHeader ==
    /\ pc = "ready" /\ arg.op = "NewACLHeader"
    /\ LET r == NewACLHeader(buf) IN
         /\ result' = [header |-> r.header, err |-> r.err]
         /\ buf' = r.buf
    /\ pc' = "done"
    /\ UNCHANGED <<securityDescriptor, token, desiredAccess, options, calls, sb, arg>>

DoNewNTSDHeader ==
    /\ pc = "ready" /\ arg.op = "NewNTSDHeader"
    /\ LET r == NewNTSDHeader(buf) IN
         /\ result' = [header |-> r.header, err |-> r.err]
         /\ buf' = r.buf
    /\ pc' = "done"
    /\ UNCHANGED <<securityDescriptor, token, desiredAccess, options, calls, sb, arg>>

NextDecode ==
    \/ DoNewGUID \/ DoNewAce \/ DoNewACL \/ DoNewNtSecurityDescriptor
    \/ DoNewACEHeader \/ DoNewBasicAce \/ DoNewAdvancedAce
    \/ DoNewACLHeader \/ DoNewNTSDHeader

SpecDecode == InitDecode /\ [][NextDecode]_vars

\* The ACE whose bytes start the input of NewAce: its type, its declared
\* Size, the GUID bytes its flags announce, and the size and the place of
\* its trailing SID.
InputAceType == buf.data[1]
InputAceSize == Uint16(buf.data, 2)
InputAceGuidBytes ==
    (IF buf.data[9] % 2 = 1 THEN 16 ELSE 0) + (IF (buf.data[9] \div 2) % 2 = 1 THEN 16 ELSE 0)
InputAceSidSize ==
    IF IsBasicAceType(InputAceType) THEN InputAceSize - 8
    ELSE InputAceSize - 12 - InputAceGuidBytes
InputAceSidStart == IF IsBasicAceType(InputAceType) THEN 8 ELSE 12 + InputAceGuidBytes

\* C14: NewAce returns an error for a type tag its switch does not list, for
\* a trailing-SID size that is zero or negative (Size - 8 for a basic body,
\* Size - 12 minus 16 for each GUID flagged present for an object body), and
\* when the trailing SID fails to decode; a Size that leaves fewer than the
\* 8 bytes every SID needs is rejected.
C14_NewAceRejects ==
    (pc = "done" /\ arg.op = "NewAce") =>
      LET d == buf.data
          basic  == Len(d) >= 8 /\ IsBasicAceType(InputAceType)
          object == Len(d) >= 12 /\ IsObjectAceType(InputAceType)
          rejected == result.err # NoError
      IN  /\ Len(d) < 8 => rejected
          /\ (Len(d) >= 8 /\ ~IsBasicAceType(InputAceType)
                /\ ~IsObjectAceType(InputAceType)) => rejected
          /\ ((basic \/ object) /\ InputAceSidSize <= 0) => rejected
          /\ ((basic \/ object) /\ InputAceSidSize \in 1..7) => rejected
          /\ ((basic \/ object) /\ InputAceSidSize > 0
                /\ NewSID([data |-> d, off |-> Min(InputAceSidStart, Len(d))],
                          InputAceSidSize).err # NoError) =>
               /\ rejected
               /\ result.err[Len(result.err)].type \in
                    {"SIDInvalidError", "EOF", "ErrUnexpectedEOF"}

\* A basic ACE whose trailing SID has revision 2 was rejected with the SID
\* decoder's error at the end of the chain.
C14_Witness ==
    /\ pc = "done" /\ arg.op = "NewAce"
    /\ Len(buf.data) >= 20
    /\ IsBasicAceType(InputAceType)
    /\ InputAceSidSize = 12
    /\ buf.data[9] = 2
    /\ Len(result.err) = 3
    /\ result.err[3] = SIDInvalidError("invalid SID revision")[1]

\* C15: NewACL decodes exactly Header.AceCount ACE records in input order, so
\* on success len(Aces) is the declared count; if ACE number i fails to
\* decode, decoding stops there, the error reports index i, and the ACEs
\* decoded before the failure are not returned to the caller.
C15_NewACL ==
    (pc = "done" /\ arg.op = "NewACL" /\ Len(buf.data) >= 8) =>
      /\ result.err = NoError => Len(result.acl.Aces) = result.acl.Header.AceCount
      /\ result.err # NoError =>
           /\ result.err[1].msg = "reading ACE"
           /\ result.err[1].index < result.acl.Header.AceCount
           /\ result.acl.Aces = <<>>

\* The sum of the declared Sizes of the ACEs of a decoded ACL.
RECURSIVE SumOfAceSizes(_)
SumOfAceSizes(aces) ==
    IF Len(aces) = 0 THEN 0 ELSE Head(aces).Header.Size + SumOfAceSizes(Tail(aces))

\* C16: when the ACL header is well formed (its Size is the 8 header bytes
\* plus the declared Sizes of its ACE records) and NewACL succeeds, NewACL
\* has consumed exactly Header.Size bytes: the cursor is on the first byte
\* after the ACL.
C16_NewACLConsumesSize ==
    (/\ pc = "done" /\ arg.op = "NewACL"
     /\ result.err = NoError
     /\ result.acl.Header.Size = 8 + SumOfAceSizes(result.acl.Aces)) =>
        buf.off = result.acl.Header.Size

\* The descriptor bytes handed to NewNtSecurityDescriptor: the difference of
\* the group and owner offsets of their header (a window past every buffer
\* when it wraps around), the cursor after their DACL.
InputSidSize == SidSize(Offset(buf.data, 4), Offset(buf.data, 8))
InputDacl == NewACL([data |-> buf.data, off |-> 20], arg.reportsError)

\* C17: NewNtSecurityDescriptor returns an error when its input is shorter
\* than the 20-byte header (so for every 10-byte input), when the DACL that
\* follows the header fails to decode, and when the owner SID or the group
\* SID it reads after the DACL fails to decode.
C17_NewNtSecurityDescriptorRejects ==
    (pc = "done" /\ arg.op = "NewNtSecurityDescriptor") =>
      LET d == buf.data
          rejected == result.err # NoError
          owner == NewSID(InputDacl.buf, InputSidSize)
          group == NewSID(owner.buf, InputSidSize)
      IN  /\ Len(d) < 20 => rejected
          /\ Len(d) = 10 => rejected
          /\ (Len(d) >= 20 /\ InputDacl.err # NoError) => rejected
          /\ (Len(d) >= 20 /\ InputDacl.err = NoError /\ InputSidSize # 0
                /\ (owner.err # NoError \/ group.err # NoError)) => rejected

\* A descriptor whose DACL and owner SID decode and whose group SID does
\* not was rejected with the group's error.
C17_Witness ==
    /\ pc = "done" /\ arg.op = "NewNtSecurityDescriptor"
    /\ Len(buf.data) >= 20
    /\ InputDacl.err = NoError
    /\ Len(InputDacl.acl.Aces) > 0
    /\ InputSidSize # 0
    /\ NewSID(InputDacl.buf, InputSidSize).err = NoError
    /\ result.err # NoError
    /\ result.err[1].msg = "parsing group SID"

\* C18: when OffsetGroup - OffsetOwner is zero, a descriptor that
\* NewNtSecurityDescriptor returns without error has a DACL that is not
\* empty, and its Owner and its Group are both the principal SID of the
\* first ACE of that DACL.
C18_ZeroOffsetDelta ==
    (/\ pc = "done" /\ arg.op = "NewNtSecurityDescriptor"
     /\ result.err = NoError
     /\ InputSidSize = 0) =>
        /\ Len(result.ntsd.DACL.Aces) > 0
        /\ result.ntsd.Owner = GetPrincipal(result.ntsd.DACL.Aces[1].ObjectAce)
        /\ result.ntsd.Group = GetPrincipal(result.ntsd.DACL.Aces[1].ObjectAce)

-----------------------------------------------------------------------------
(* SDDLBuilder.  A Go string is the sequence of its characters.  ranging   *)
(* over a Go map visits the entries in an order the language leaves        *)
(* unspecified, so a formatter that appends codes in map order has a SET   *)
(* of possible results.                                                    *)

DACLAutoInheritReq == 256
DACLAutoInherited == 1024
SACLAutoInherited == 2048
DACLProtected == 4096

\* NewSDDLBuilder(): empty lists, every other field at its zero value
NewSDDLBuilder ==
    [owner |-> <<>>, group |-> <<>>, dacl |-> <<>>, sacl |-> <<>>, flags |-> 0,
     useOwner |-> FALSE, useGroup |-> FALSE, useDacl |-> FALSE,
     useSacl |-> FALSE, useFlags |-> FALSE]

\* `for _, code := range m { if selected { result += code } }`: the codes
\* selected, appended in any visiting order
RangeOrders(codes) ==
    LET n == Cardinality(codes)
    IN  { Join(q, <<>>) : q \in { p \in [1..n -> codes] :
                                    \A i, j \in 1..n : i # j => p[i] # p[j] } }

\* the canonical text of a SID, as SID.String prints it: "S-1-5-18"
SIDText(s) ==
    LET digit(d) == <<SubSeq(<<"0", "1", "2", "3", "4", "5", "6", "7", "8", "9">>,
                             d + 1, d + 1)[1]>>
        RECURSIVE itoa(_)
        itoa(n) == IF n < 10 THEN digit(n) ELSE itoa(n \div 10) \o digit(n % 10)
        t == String(s)
    IN  IF t = <<>> THEN <<>>
        ELSE <<"S">> \o Join([i \in 1..Len(t) |-> <<"-">> \o itoa(t[i])], <<>>)

\* the value WithFlag's flagMap holds for a code, -1 for a code it lacks
flagMap(flag) ==
    CASE flag = <<"P">> -> DACLProtected
      [] flag = <<"A", "R">> -> DACLAutoInheritReq
      [] flag = <<"A", "I">> -> DACLAutoInherited
      [] flag = <<"S", "A">> -> SACLAutoInherited
      [] flag = <<"S", "R">> -> 512
      [] flag = <<"S", "P">> -> 8192
      [] flag = <<"N", "O">> -> 256
      [] flag = <<"N", "G">> -> 512
      [] flag = <<"S", "D">> -> 1
      [] flag = <<"D", "T">> -> 8
      [] flag = <<"S", "S">> -> 8
      [] flag = <<"R", "M">> -> 8192
      [] flag = <<"C", "R">> -> 16
      [] flag = <<"C", "O">> -> 4
      [] flag = <<"S", "R", "1">> -> 2048
      [] OTHER -> -1

\* formatACEFlags(flags): the codes of the header flag bits that are set
formatACEFlags(flags) ==
    LET aceFlagMap == { <<1, <<"O", "I">>>>, <<2, <<"C", "I">>>>, <<4, <<"N", "P">>>>,
                        <<8, <<"I", "O">>>>, <<16, <<"I", "D">>>>,
                        <<64, <<"S", "A">>>>, <<128, <<"F", "A">>>> }
    IN  RangeOrders({ e[2] : e \in { x \in aceFlagMap : (flags \div x[1]) % 2 = 1 } })

\* formatBasicAccessMask(mask): the code of the right the mask equals, else
\* the codes of the rights it has a bit of ("" when it has none)
formatBasicAccessMask(mask) ==
    LET rightsMap == { <<AccessMaskGenericAll, <<"G", "A">>>>,
                       <<AccessMaskGenericExecute, <<"G", "X">>>>,
                       <<AccessMaskGenericWrite, <<"G", "W">>>>,
                       <<AccessMaskGenericRead, <<"G", "R">>>>,
                       <<{25}, <<"M", "A">>>>,
                       <<AccessMaskReadControl, <<"R", "C">>>>,
                       <<AccessMaskWriteDACL, <<"W", "D">>>>,
                       <<AccessMaskWriteOwner, <<"W", "O">>>>,
                       <<AccessMaskDelete, <<"S", "D">>>>,
                       <<AccessMaskSynchronize, <<"S", "Y">>>> }
        exact == { e \in rightsMap : mask = e[1] }
    IN  IF exact # {} THEN { e[2] : e \in exact }
        ELSE RangeOrders({ e[2] : e \in { x \in rightsMap : mask \cap x[1] # {} } })

\* formatAccessMask(mask): the basic form, or "0x%08X" of the mask when the
\* basic form is empty
formatAccessMask(mask) ==
    LET hexDigits == <<"0", "1", "2", "3", "4", "5", "6", "7",
                       "8", "9", "A", "B", "C", "D", "E", "F">>
        bit(k) == IF k \in mask THEN 1 ELSE 0
        nibble(k) == bit(4 * k) + 2 * bit(4 * k + 1) + 4 * bit(4 * k + 2) + 8 * bit(4 * k + 3)
        hex == <<"0", "x">> \o [i \in 1..8 |-> hexDigits[nibble(8 - i) + 1]]
    IN  { IF basic # <<>> THEN basic ELSE hex : basic \in formatBasicAccessMask(mask) }

\* fmt.Sprintf("(%s;%s;%s;;;%s)", type, flags, rights, sid)
aceString(type, flags, rights, sid) ==
    <<"(">> \o type \o <<";">> \o flags \o <<";">> \o rights \o <<";", ";", ";">> \o sid \o <<")">>

\* formatSDFlags(flags): the codes of the six control bits it knows
formatSDFlags(flags) ==
    LET sdFlagMap == { <<DACLProtected, <<"P">>>>, <<DACLAutoInheritReq, <<"A", "R">>>>,
                       <<DACLAutoInherited, <<"A", "I">>>>, <<SACLAutoInherited, <<"S", "A">>>>,
                       <<512, <<"S", "R">>>>, <<8192, <<"S", "P">>>> }
    IN  RangeOrders({ e[2] : e \in { x \in sdFlagMap : (flags \div x[1]) % 2 = 1 } })

\* Build with the S: part placed before the D: part
BuildMutant(b) ==
    LET owner == IF b.useOwner THEN <<<<"O", ":">> \o b.owner>> ELSE <<>>
        group == IF b.useGroup THEN <<<<"G", ":">> \o b.group>> ELSE <<>>
        dacl  == IF b.useDacl
                 THEN { <<<<"D", ":">> \o (IF b.useFlags THEN f ELSE <<>>) \o Join(b.dacl, <<>>)>> :
                            f \in formatSDFlags(b.flags) }
                 ELSE IF b.useFlags
                      THEN { <<<<"D", ":">> \o f>> : f \in formatSDFlags(b.flags) }
                      ELSE { <<>> }
        sacl  == IF b.useSacl THEN <<<<"S", ":">> \o Join(b.sacl, <<>>)>> ELSE <<>>
    IN  { Join(owner \o group \o sacl \o d, <<>>) : d \in dacl }

\* sb.Build(): the parts O:, G:, D:, S: that are in use, joined; every
\* result the flag formatter's map order can give
Build(b) ==
    LET owner == IF b.useOwner THEN <<<<"O", ":">> \o b.owner>> ELSE <<>>
        group == IF b.useGroup THEN <<<<"G", ":">> \o b.group>> ELSE <<>>
        dacl  == IF b.useDacl
                 THEN { <<<<"D", ":">> \o (IF b.useFlags THEN f ELSE <<>>) \o Join(b.dacl, <<>>)>> :
                            f \in formatSDFlags(b.flags) }
                 ELSE IF b.useFlags
                      THEN { <<<<"D", ":">> \o f>> : f \in formatSDFlags(b.flags) }
                      ELSE { <<>> }
        sacl  == IF b.useSacl THEN <<<<"S", ":">> \o Join(b.sacl, <<>>)>> ELSE <<>>
    IN  { Join(owner \o group \o d \o sacl, <<>>) : d \in dacl }

-----------------------------------------------------------------------------
(* The builder as a state machine: sb is the builder, arg the last call    *)
(* made on it (its name, how many calls were made so far, its arguments),  *)
(* result the string Build returned.                                       *)

MaxBuilderCalls == 3

BuilderCall(op, args) == [op |-> op, n |-> arg.n + 1, args |-> args]

InitBuilder ==
    /\ securityDescriptor = NoDescriptor
    /\ token = NoToken
    /\ desiredAccess = {}
    /\ options = NilOptions
    /\ calls = <<>> /\ buf = <<>>
    /\ sb = NewSDDLBuilder
    /\ arg = [op |-> "NewSDDLBuilder", n |-> 0, args |-> <<>>]
    /\ result = [sddl |-> <<>>]
    /\ pc = "building"

DoWithOwner ==
    /\ pc = "building" /\ arg.n < MaxBuilderCalls
    /\ \E sid \in { <<"S", "-", "1", "-", "5", "-", "1", "8">> } :
         /\ sb' = [sb EXCEPT !.owner = sid, !.useOwner = TRUE]
         /\ arg' = BuilderCall("WithOwner", <<sid>>)
    /\ UNCHANGED <<securityDescriptor, token, desiredAccess, options, result, pc, calls, buf>>

DoWithOwnerSID ==
    /\ pc = "building" /\ arg.n < MaxBuilderCalls
    /\ \E sid \in { SID(1, <<0, 0, 0, 0, 0, 5>>, <<32, 544>>) } :
         /\ sb' = [sb EXCEPT !.owner = SIDText(sid), !.useOwner = TRUE]
         /\ arg' = BuilderCall("WithOwnerSID", <<sid>>)
    /\ UNCHANGED <<securityDescriptor, token, desiredAccess, options, result, pc, calls, buf>>

DoWithGroup ==
    /\ pc = "building" /\ arg.n < MaxBuilderCalls
    /\ \E sid \in { <<"S", "-", "1", "-", "5", "-", "3", "2", "-", "5", "4", "4">> } :
         /\ sb' = [sb EXCEPT !.group = sid, !.useGroup = TRUE]
         /\ arg' = BuilderCall("WithGroup", <<sid>>)
    /\ UNCHANGED <<securityDescriptor, token, desiredAccess, options, result, pc, calls, buf>>

DoWithGroupSID ==
    /\ pc = "building" /\ arg.n < MaxBuilderCalls
    /\ \E sid \in { EveryoneSID } :
         /\ sb' = [sb EXCEPT !.group = SIDText(sid), !.useGroup = TRUE]
         /\ arg' = BuilderCall("WithGroupSID", <<sid>>)
    /\ UNCHANGED <<securityDescriptor, token, desiredAccess, options, result, pc, calls, buf>>

DoWithFlags ==
    /\ pc = "building" /\ arg.n < MaxBuilderCalls
    /\ \E flags \in { 0, DACLProtected + DACLAutoInherited } :
         /\ sb' = [sb EXCEPT !.flags = flags, !.useFlags = TRUE]
         /\ arg' = BuilderCall("WithFlags", <<flags>>)
    /\ UNCHANGED <<securityDescriptor, token, desiredAccess, options, result, pc, calls, buf>>

\* sb.flags |= val: every value of flagMap is a single bit
DoWithFlag ==
    /\ pc = "building" /\ arg.n < MaxBuilderCalls
    /\ \E flag \in { <<"P">>, <<"A", "R">>, <<"A", "I">>, <<"S", "A">>, <<"S", "R">>,
                     <<"S", "P">>, <<"N", "O">>, <<"N", "G">>, <<"S", "D">>, <<"D", "T">>,
                     <<"S", "S">>, <<"R", "M">>, <<"C", "R">>, <<"C", "O">>,
                     <<"S", "R", "1">>, <<"X">> } :
         /\ sb' = IF flagMap(flag) >= 0
                  THEN [sb EXCEPT !.flags = IF (sb.flags \div flagMap(flag)) % 2 = 1
                                            THEN sb.flags ELSE sb.flags + flagMap(flag),
                                  !.useFlags = TRUE]
                  ELSE sb
         /\ arg' = BuilderCall("WithFlag", <<flag>>)
    /\ UNCHANGED <<securityDescriptor, token, desiredAccess, options, result, pc, calls, buf>>

DoWithDACL ==
    /\ pc = "building" /\ arg.n < MaxBuilderCalls
    /\ sb' = [sb EXCEPT !.useDacl = TRUE]
    /\ arg' = BuilderCall("WithDACL", <<>>)
    /\ UNCHANGED <<securityDescriptor, token, desiredAccess, options, result, pc, calls, buf>>

DoWithSACL ==
    /\ pc = "building" /\ arg.n < MaxBuilderCalls
    /\ sb' = [sb EXCEPT !.useSacl = TRUE]
    /\ arg' = BuilderCall("WithSACL", <<>>)
    /\ UNCHANGED <<securityDescriptor, token, desiredAccess, options, result, pc, calls, buf>>

DoAccessAllowedACE ==
    /\ pc = "building" /\ arg.n < MaxBuilderCalls
    /\ \E sid \in { <<"S", "-", "1", "-", "1", "-", "0">> },
          accessMask \in { AccessMaskGenericRead,
                           AccessMaskReadControl \cup AccessMaskWriteDACL },
          flags \in { 1, 3 } :
         /\ \E f \in formatACEFlags(flags), m \in formatAccessMask(accessMask) :
              sb' = [sb EXCEPT !.useDacl = TRUE,
                               !.dacl = Append(sb.dacl, aceString(<<"A">>, f, m, sid))]
         /\ arg' = BuilderCall("AccessAllowedACE", <<sid, accessMask, flags>>)
    /\ UNCHANGED <<securityDescriptor, token, desiredAccess, options, result, pc, calls, buf>>

DoAccessDeniedACE ==
    /\ pc = "building" /\ arg.n < MaxBuilderCalls
    /\ \E sid \in { <<"S", "-", "1", "-", "5", "-", "7">> },
          accessMask \in { AccessMaskGenericWrite, {0} },
          flags \in { 0, 32 } :
         /\ \E f \in formatACEFlags(flags), m \in formatAccessMask(accessMask) :
              sb' = [sb EXCEPT !.useDacl = TRUE,
                               !.dacl = Append(sb.dacl, aceString(<<"D">>, f, m, sid))]
         /\ arg' = BuilderCall("AccessDeniedACE", <<sid, accessMask, flags>>)
    /\ UNCHANGED <<securityDescriptor, token, desiredAccess, options, result, pc, calls, buf>>

DoAuditACE ==
    /\ pc = "building" /\ arg.n < MaxBuilderCalls
    /\ \E sid \in { <<"S", "-", "1", "-", "1", "-", "0">> },
          accessMask \in { AccessMaskGenericAll },
          flags \in { 0, 192 }, success \in BOOLEAN, failure \in BOOLEAN :
         LET auditType == IF success /\ failure THEN <<"A", "U">>
                          ELSE IF success THEN <<"S", "A">>
                          ELSE IF failure THEN <<"F", "A">>
                          ELSE <<>>
         IN  /\ \E f \in formatACEFlags(flags), m \in formatAccessMask(accessMask) :
                  sb' = [sb EXCEPT !.useSacl = TRUE,
                                   !.sacl = Append(sb.sacl, aceString(auditType, f, m, sid))]
             /\ arg' = BuilderCall("AuditACE", <<sid, accessMask, flags, success, failure>>)
    /\ UNCHANGED <<securityDescriptor, token, desiredAccess, options, result, pc, calls, buf>>

DoBuild ==
    /\ pc = "building"
    /\ \E s \in Build(sb) : result' = [sddl |-> s]
    /\ arg' = [op |-> "Build", n |-> arg.n, args |-> <<>>]
    /\ pc' = "built"
    /\ UNCHANGED <<securityDescriptor, token, desiredAccess, options, calls, buf, sb>>

NextBuilder ==
    \/ DoWithOwner \/ DoWithOwnerSID \/ DoWithGroup \/ DoWithGroupSID
    \/ DoWithFlags \/ DoWithFlag \/ DoWithDACL \/ DoWithSACL
    \/ DoAccessAllowedACE \/ DoAccessDeniedACE \/ DoAuditACE \/ DoBuild

SpecBuilder == InitBuilder /\ [][NextBuilder]_vars

-----------------------------------------------------------------------------
\* C19: whatever calls were made on the builder and in whatever order, the
\* string Build returns is the owner part O:<owner>, then the group part
\* G:<group>, then the part D:<flags><aces>, then the part S:<aces>, each
\* present only when it was set (the D: part when the DACL or the control
\* flags were set); a call that adds an ACE puts its text at the END of its
\* list, leaves the other list alone and turns its list on, every other call
\* leaves both lists alone; and the text added has the form
\* (<type>;<flag codes>;<rights codes or 0x + 8 hex digits>;;;<sid>) with the
\* type code of the call (A, D, or AU / SA / FA / none as the audit call's
\* success and failure arguments say) and the sid the call was given.
C19_BuildSectionOrder ==
    /\ [](pc = "built" =>
            LET flagTexts == IF sb.useFlags THEN formatSDFlags(sb.flags) ELSE { <<>> }
                Sections(flags) ==
                       (IF sb.useOwner THEN <<"O", ":">> \o sb.owner ELSE <<>>)
                    \o (IF sb.useGroup THEN <<"G", ":">> \o sb.group ELSE <<>>)
                    \o (IF sb.useDacl \/ sb.useFlags
                        THEN <<"D", ":">> \o flags \o Join(sb.dacl, <<>>) ELSE <<>>)
                    \o (IF sb.useSacl THEN <<"S", ":">> \o Join(sb.sacl, <<>>) ELSE <<>>)
            IN  \E flags \in flagTexts : result.sddl = Sections(flags))
    /\ [][LET aceFlagCodes == { <<"O", "I">>, <<"C", "I">>, <<"N", "P">>, <<"I", "O">>,
                                <<"I", "D">>, <<"S", "A">>, <<"F", "A">> }
              rightsCodes  == { <<"G", "A">>, <<"G", "X">>, <<"G", "W">>, <<"G", "R">>,
                                <<"M", "A">>, <<"R", "C">>, <<"W", "D">>, <<"W", "O">>,
                                <<"S", "D">>, <<"S", "Y">> }
              hexChars == { "0", "1", "2", "3", "4", "5", "6", "7",
                            "8", "9", "A", "B", "C", "D", "E", "F" }
              IsCodes(t, codes) ==
                  /\ Len(t) % 2 = 0
                  /\ \A k \in 1..(Len(t) \div 2) : <<t[2 * k - 1], t[2 * k]>> \in codes
              IsHex(t) ==
                  /\ Len(t) = 10 /\ t[1] = "0" /\ t[2] = "x"
                  /\ \A k \in 3..10 : t[k] \in hexChars
              IsAceText(x, type, sid) ==
                  /\ Len(x) >= 2 /\ x[1] = "(" /\ x[Len(x)] = ")"
                  /\ LET fields == Split(SubSeq(x, 2, Len(x) - 1), ";")
                     IN  /\ Len(fields) = 6
                         /\ fields[1] = type
                         /\ IsCodes(fields[2], aceFlagCodes)
                         /\ \/ fields[3] # <<>> /\ IsCodes(fields[3], rightsCodes)
                            \/ IsHex(fields[3])
                         /\ fields[4] = <<>> /\ fields[5] = <<>>
                         /\ fields[6] = sid
              AddedLast(old, new) ==
                  /\ Len(new) = Len(old) + 1
                  /\ SubSeq(new, 1, Len(old)) = old
              auditType(success, failure) ==
                  IF success /\ failure THEN <<"A", "U">>
                  ELSE IF success THEN <<"S", "A">>
                  ELSE IF failure THEN <<"F", "A">>
                  ELSE <<>>
          IN  /\ arg'.op \in {"AccessAllowedACE", "AccessDeniedACE"} =>
                   /\ sb'.useDacl
                   /\ AddedLast(sb.dacl, sb'.dacl)
                   /\ sb'.sacl = sb.sacl
                   /\ IsAceText(sb'.dacl[Len(sb'.dacl)],
                                IF arg'.op = "AccessAllowedACE" THEN <<"A">> ELSE <<"D">>,
                                arg'.args[1])
              /\ arg'.op = "AuditACE" =>
                   /\ sb'.useSacl
                   /\ AddedLast(sb.sacl, sb'.sacl)
                   /\ sb'.dacl = sb.dacl
                   /\ IsAceText(sb'.sacl[Len(sb'.sacl)],
                                auditType(arg'.args[4], arg'.args[5]), arg'.args[1])
              /\ arg'.op \notin {"AccessAllowedACE", "AccessDeniedACE", "AuditACE"} =>
                   sb'.dacl = sb.dacl /\ sb'.sacl = sb.sacl]_vars

\* Build has run on a builder that was given, with no WithDACL call, a deny
\* ACE and then an allow ACE, an audit ACE or none, and an owner after them.
C19_Witness ==
    /\ pc = "built" /\ arg.n = MaxBuilderCalls
    /\ sb.useOwner /\ sb.useDacl
    /\ Len(sb.dacl) = 2 /\ sb.dacl[1][2] = "D" /\ sb.dacl[2][2] = "A"
    /\ result.sddl # <<>>

\* C20: when WithFlag(code), code one of the fifteen codes WithFlag knows,
\* was the last call before Build on a builder that has a DACL and holds no
\* other control flag, the text between "D:" and the first ACE (or the S:
\* part, or the end) of the string Build returns is that code.
C20_WithFlagRendersCode ==
    [][LET FlagsField(s) ==
               LET d == CHOOSE i \in 1..(Len(s) - 1) :
                           /\ s[i] = "D" /\ s[i + 1] = ":"
                           /\ \A h \in 1..(i - 1) : ~(s[h] = "D" /\ s[h + 1] = ":")
                   stops == { j \in (d + 2)..Len(s) :
                                \/ s[j] = "("
                                \/ j < Len(s) /\ s[j] = "S" /\ s[j + 1] = ":" }
                   e == IF stops = {} THEN Len(s) + 1
                        ELSE CHOOSE j \in stops : \A h \in stops : j <= h
               IN  SubSeq(s, d + 2, e - 1)
       IN  (/\ arg'.op = "Build" /\ arg.op = "WithFlag"
            /\ flagMap(arg.args[1]) >= 0
            /\ sb.useDacl
            /\ sb.flags = flagMap(arg.args[1]))
           => FlagsField(result'.sddl) = arg.args[1]]_vars

-----------------------------------------------------------------------------
(* Integrity levels as SIDs.  arg is the level ToSID is called on, result  *)
(* the SID it returns and then the level and error IntegrityLevelFromSID   *)
(* returns for that SID.                                                   *)

IntegrityLevelMediumPlus    == 8448
IntegrityLevelSystem        == 16384
IntegrityLevelProtected     == 20480
IntegrityLevelSecureProcess == 24576

\* il.ToSID()
ToSID(il) ==
    [Revision |-> 1, NumAuthorities |-> 1, Authority |-> <<0, 0, 0, 0, 0, 16>>,
     SubAuthorities |-> <<il>>]

\* IntegrityLevelFromSID(sid), for a sid whose String does not panic
IntegrityLevelFromSID(sid) ==
    LET IntegrityLevelMap ==
            { <<<<"S", "-", "1", "-", "1", "6", "-", "0">>, IntegrityLevelUntrusted>>,
              <<<<"S", "-", "1", "-", "1", "6", "-", "4", "0", "9", "6">>,
                IntegrityLevelLow>>,
              <<<<"S", "-", "1", "-", "1", "6", "-", "8", "1", "9", "2">>,
                IntegrityLevelMedium>>,
              <<<<"S", "-", "1", "-", "1", "6", "-", "8", "4", "4", "8">>,
                IntegrityLevelMediumPlus>>,
              <<<<"S", "-", "1", "-", "1", "6", "-", "1", "2", "2", "8", "8">>,
                IntegrityLevelHigh>>,
              <<<<"S", "-", "1", "-", "1", "6", "-", "1", "6", "3", "8", "4">>,
                IntegrityLevelSystem>>,
              <<<<"S", "-", "1", "-", "1", "6", "-", "2", "0", "4", "8", "0">>,
                IntegrityLevelProtected>>,
              <<<<"S", "-", "1", "-", "1", "6", "-", "2", "8", "6", "7", "2">>,
                IntegrityLevelSecureProcess>> }
        prefix == <<"S", "-", "1", "-", "1", "6", "-">>
        lookup(sidStr) ==
            IF ~(Len(sidStr) >= Len(prefix) /\ SubSeq(sidStr, 1, Len(prefix)) = prefix)
            THEN [level |-> 0, err |-> Errorf("not an integrity level SID", -1, NoError)]
            ELSE IF \E e \in IntegrityLevelMap : e[1] = sidStr
            THEN [level |-> (CHOOSE e \in IntegrityLevelMap : e[1] = sidStr)[2],
                  err |-> NoError]
            ELSE [level |-> IF Len(sid.SubAuthorities) > 0 THEN sid.SubAuthorities[1] ELSE 0,
                  err |-> NoError]
    IN  lookup(SIDText(sid))

\* The levels of the model are the multiples of 512 up to 512 * MaxLevelIndex
\* (0x7000), which include every named level but Medium Plus, and Medium Plus.
MaxLevelIndex == 56

InitIntegrity ==
    /\ securityDescriptor = NoDescriptor
    /\ token = NoToken
    /\ desiredAccess = {}
    /\ options = NilOptions
    /\ calls = <<>> /\ buf = <<>> /\ sb = <<>>
    /\ \/ /\ pc = "level"
          /\ arg \in { 512 * k : k \in 0..MaxLevelIndex } \cup { IntegrityLevelMediumPlus }
          /\ result = [sid |-> ZeroSID]
       \/ /\ pc = "sid"
          /\ arg = -1
          /\ \E s \in { SID(1, <<0, 0, 0, 0, 0, 5>>, <<18>>),
                        SID(1, <<0, 0, 0, 0, 0, 16>>, <<>>),
                        SID(1, <<0, 0, 0, 0, 0, 16>>, <<8192, 7>>),
                        SID(1, <<0, 0, 0, 0, 0, 160>>, <<8192>>),
                        SID(2, <<0, 0, 0, 0, 0, 16>>, <<8192>>),
                        SID(1, <<0, 0, 0, 0, 1, 16>>, <<4096>>),
                        ZeroSID } :
               result = [sid |-> s]

DoToSID ==
    /\ pc = "level"
    /\ result' = [sid |-> ToSID(arg)]
    /\ pc' = "sid"
    /\ UNCHANGED <<securityDescriptor, token, desiredAccess, options, calls, buf, sb, arg>>

DoIntegrityLevelFromSID ==
    /\ pc = "sid"
    /\ LET r == IntegrityLevelFromSID(result.sid) IN
         result' = [sid |-> result.sid, level |-> r.level, err |-> r.err]
    /\ pc' = "done"
    /\ UNCHANGED <<securityDescriptor, token, desiredAccess, options, calls, buf, sb, arg>>

NextIntegrity == DoToSID \/ DoIntegrityLevelFromSID

SpecIntegrity == InitIntegrity /\ [][NextIntegrity]_vars

\* C21: for every level il that is a named constant or whose SID is a key
\* of IntegrityLevelMap, il.ToSID() is the SID S-1-16-<il> (revision 1,
\* authority 16, the one sub-authority il), and IntegrityLevelFromSID of
\* that SID returns il and no error.
C21_ToSIDFromSIDInverse ==
    LET named == { IntegrityLevelUntrusted, IntegrityLevelLow, IntegrityLevelMedium,
                   IntegrityLevelMediumPlus, IntegrityLevelHigh, IntegrityLevelSystem,
                   IntegrityLevelProtected, IntegrityLevelSecureProcess }
        keys  == { 0, 4096, 8192, 8448, 12288, 16384, 20480, 28672 }
    IN  arg \in named \cup keys =>
          /\ pc \in {"sid", "done"} =>
               /\ result.sid = SID(1, <<0, 0, 0, 0, 0, 16>>, <<arg>>)
               /\ String(result.sid) = <<1, 16, arg>>
          /\ pc = "done" => result.level = arg /\ result.err = NoError

-----------------------------------------------------------------------------
\* C22: NewGUID called on a buffer that holds fewer than 16 bytes returns an
\* error.
C22_NewGUIDShortBuffer ==
    (pc = "done" /\ arg.op = "NewGUID" /\ Len(buf.data) < 16) => result.err # NoError

-----------------------------------------------------------------------------
\* C23: when the integrity check is enabled and denies the mapped request,
\* the call does not grant, returns the access mask 0 and the integrity
\* reason, and its trace is the failed integrity step alone: no empty-DACL,
\* owner, deny-ACE or allow-ACE step follows it, whatever the DACL and the
\* owner are.
C23_IntegrityDenialReturnsAtOnce ==
    (pc = "done" /\ ~IntegrityPasses) =>
        /\ ~result.panicked
        /\ ~result.Granted
        /\ result.Access = {}
        /\ result.Reason = "Access denied by integrity level policy"
        /\ result.Details = <<Detail("IntegrityLevel", -1, FALSE)>>
        /\ StepNames \cap ({"EmptyDACL", "OwnerCheck", "OwnerRights"}
                            \cup DenySteps \cup AllowSteps) = {}

\* The integrity check has denied a request of the owner on an empty DACL.
C23_Witness ==
    /\ pc = "done" /\ ~IntegrityPasses
    /\ Aces = <<>> /\ UserIsOwner
    /\ MappedRequest # {}
    /\ ~result.Granted

-----------------------------------------------------------------------------
(* aceAppliesToToken on its own: a caller holds an ACE (arg), a token and  *)
(* the options AccessCheck hands over (never nil), and calls it once; the  *)
(* result is the pair the function returns.                                *)

InitAceApplies ==
    /\ securityDescriptor = NoDescriptor
    /\ token \in { NewTokenUser(u, g) :
                     u \in {UserA, UserB, GroupG},
                     g \in {<<>>, <<EveryoneSID>>, <<GroupG>>, <<UserB, GroupG>>} }
    /\ desiredAccess = {}
    /\ options \in {DefaultAccessCheckOptions, Options(FALSE, PolicyNoWriteUp, 0, 0, NilMapping)}
    /\ result = NewResult
    /\ pc = "ready"
    /\ calls = <<>> /\ buf = <<>> /\ sb = <<>>
    /\ arg \in AcePool \cup
               { NewAccessAllowedACE(UserB, AccessMaskGenericRead),
                 NewAccessDeniedACE(UserATwin, AccessMaskGenericRead),
                 ACE(AceTypeAccessDeniedObject, AccessMaskGenericRead, AdvancedAce(EveryoneSID)),
                 ACE(AceTypeAccessDeniedObject, AccessMaskGenericRead, AdvancedAce(GroupG)) }

DoAceAppliesToToken ==
    /\ pc = "ready"
    /\ result' = aceAppliesToToken(arg, token, options)
    /\ pc' = "done"
    /\ UNCHANGED <<securityDescriptor, token, desiredAccess, options, calls, buf, sb, arg>>

NextAceApplies == DoAceAppliesToToken

SpecAceApplies == InitAceApplies /\ [][NextAceApplies]_vars

\* the canonical string of the ACE's principal, and the three ways to match
PrincipalString == String(arg.ObjectAce.SecurityIdentifier)
MatchesEveryone == PrincipalString = EveryoneString
MatchesUser == PrincipalString = String(token.UserSID)
MatchesGroup == \E k \in 1..Len(token.Groups) : PrincipalString = String(token.Groups[k])

\* C24: aceAppliesToToken returns true exactly when the canonical string of
\* the ACE's principal is S-1-1-0, or is the string of the token's user, or is
\* the string of one of the token's groups; for every other basic or object
\* ACE it returns false (and it always returns).
C24_AppliesIffPrincipalMatches ==
    pc = "done" =>
        /\ ~result.panicked
        /\ result.applies <=> (MatchesEveryone \/ MatchesUser \/ MatchesGroup)

\* An object ACE matched through the second group of the token only.
C24_Witness ==
    /\ pc = "done"
    /\ arg.ObjectAce.kind = "AdvancedAce"
    /\ ~MatchesEveryone /\ ~MatchesUser /\ MatchesGroup
    /\ Len(token.Groups) = 2 /\ PrincipalString # String(token.Groups[1])
    /\ result.applies

-----------------------------------------------------------------------------
\* The reorderings of the DACL that keep the ACE type at every position: the
\* deny ACEs are permuted among themselves, the allow ACEs among themselves.
ClassReorderings ==
    { p \in [1..Len(Aces) -> 1..Len(Aces)] :
        /\ \A i, j \in 1..Len(Aces) : i # j => p[i] # p[j]
        /\ \A i \in 1..Len(Aces) : Aces[p[i]].Header.Type = Aces[i].Header.Type }

\* The result of the same call on the descriptor with its DACL reordered by p.
ReorderedResult(p) ==
    AccessCheck([securityDescriptor EXCEPT !.DACL.Aces = [i \in 1..Len(Aces) |-> Aces[p[i]]]],
                token, desiredAccess, options)

\* C25: reordering the ACEs within the deny class or within the allow class
\* of the DACL changes neither Granted nor Access of the result of AccessCheck
\* for the same token, request and options.
C25_ReorderingWithinClass ==
    pc = "done" =>
        LET same(r) == r.Granted = result.Granted /\ r.Access = result.Access
        IN  \A p \in ClassReorderings : same(ReorderedResult(p))

\* Two different allow ACEs, both needed for the grant; the swapped DACL gives
\* another step trace.
C25_Witness ==
    /\ pc = "done" /\ Len(Aces) = MaxAces
    /\ IsAllowAce(Aces[1]) /\ IsAllowAce(Aces[2]) /\ Aces[1] # Aces[2]
    /\ result.Granted /\ AceEvaluationRan
    /\ \E p \in ClassReorderings : ReorderedResult(p).Details # result.Details

\* Two different deny ACEs that together deny the whole request: the call
\* returns from the deny pass, and the swapped DACL reports another ACE.
C25_WitnessDeny ==
    /\ pc = "done" /\ Len(Aces) = MaxAces
    /\ IsDenyAce(Aces[1]) /\ IsDenyAce(Aces[2])
    /\ ~result.Granted /\ result.Ace # <<>>
    /\ \E p \in ClassReorderings : ReorderedResult(p).Ace # result.Ace

-----------------------------------------------------------------------------
\* The descriptor in the input of NewNtSecurityDescriptor, read off its
\* bytes: the DACL follows the 20-byte header, the owner SID record follows
\* the DACL and the group SID record the owner's; a SID record is as long as
\* its sub-authority count says.
InputDaclSize == Uint16(buf.data, 22)
InputOwnerAt == 20 + InputDaclSize
InputOwnerLen == 8 + 4 * buf.data[InputOwnerAt + 2]
InputGroupAt == InputOwnerAt + InputOwnerLen
InputGroupLen == 8 + 4 * buf.data[InputGroupAt + 2]
InputOwner ==
    NewSID(Buffer(SubSeq(buf.data, InputOwnerAt + 1, InputOwnerAt + InputOwnerLen)),
           InputOwnerLen)
InputGroup ==
    NewSID(Buffer(SubSeq(buf.data, InputGroupAt + 1, InputGroupAt + InputGroupLen)),
           InputGroupLen)

\* The input is a whole descriptor: a DACL that decodes and is as long as it
\* declares, then two valid SID records and nothing more, and the header's
\* owner and group offsets are as far apart as the owner record is long.
InputIsDescriptor ==
    /\ Len(buf.data) >= 28
    /\ LET dacl(d) == d.err = NoError /\ d.buf.off = InputDaclSize
       IN  dacl(NewACL(Buffer(SubSeq(buf.data, 21, Len(buf.data))), arg.reportsError))
    /\ Len(buf.data) >= InputOwnerAt + 8
    /\ Len(buf.data) >= InputGroupAt + 8
    /\ Len(buf.data) = InputGroupAt + InputGroupLen
    /\ InputOwner.err = NoError /\ InputGroup.err = NoError
    /\ SidSize(Offset(buf.data, 4), Offset(buf.data, 8)) = InputOwnerLen

\* C26: NewNtSecurityDescriptor decodes a descriptor whose owner and group SID
\* records have different lengths to exactly those two SIDs, without an error.
C26_OwnerGroupIndependentSizes ==
    (/\ pc = "done" /\ arg.op = "NewNtSecurityDescriptor"
     /\ InputIsDescriptor
     /\ InputOwnerLen # InputGroupLen) =>
        /\ result.err = NoError
        /\ result.ntsd.Owner = InputOwner.sid
        /\ result.ntsd.Group = InputGroup.sid

\* What the code does decode: owner and group records of the same length.
C26_SameLengthDecodes ==
    (/\ pc = "done" /\ arg.op = "NewNtSecurityDescriptor"
     /\ InputIsDescriptor
     /\ InputOwnerLen = InputGroupLen) =>
        /\ result.err = NoError
        /\ result.ntsd.Owner = InputOwner.sid
        /\ result.ntsd.Group = InputGroup.sid

-----------------------------------------------------------------------------
\* The deny ACEs of the object variant in the DACL, by position.
ObjectDenyAces ==
    { i \in 1..Len(Aces) : /\ Aces[i].Header.Type = AceTypeAccessDeniedObject
                           /\ Aces[i].ObjectAce.kind = "AdvancedAce" }

\* C27: with IgnoreObjectType set, when the ACEs are evaluated, no bit that
\* a deny ACE of the object variant applying to the token denies is in the
\* access granted, even when an allow ACE grants it.
C27_ObjectDenyHonoured ==
    (pc = "done" /\ EffectiveOptions(options).IgnoreObjectType /\ AceEvaluationRan) =>
        \A i \in ObjectDenyAces :
            AceApplies(Aces[i]) => result.Access \cap MappedRights(Aces[i]) = {}

\* The same statement holds of the basic deny ACEs.
C27_BasicDenyHonoured ==
    (pc = "done" /\ EffectiveOptions(options).IgnoreObjectType /\ AceEvaluationRan) =>
        \A i \in 1..Len(Aces) :
            (IsDenyAce(Aces[i]) /\ AceApplies(Aces[i])) =>
                result.Access \cap MappedRights(Aces[i]) = {}

-----------------------------------------------------------------------------
\* The access-allowed ACEs a caller may append to the DACL.
AppendedAces == { ace \in AcePool : IsAllowAce(ace) }

\* The result of the same call on the descriptor with ace appended to its DACL.
AppendedResult(ace) ==
    AccessCheck([securityDescriptor EXCEPT !.DACL.Aces = Append(Aces, ace)],
                token, desiredAccess, options)

\* C28 as stated: appending an access-allowed ACE to the DACL never turns a
\* granted request into a denied one, and Access loses no bit.
C28_AppendAllowKeepsGrant ==
    (pc = "done" /\ result.Granted) =>
        LET kept(r) == r.Granted /\ result.Access \subseteq r.Access
        IN  \A ace \in AppendedAces : kept(AppendedResult(ace))

\* C28, amended: appending an access-allowed ACE to a DACL that is not empty
\* never turns a granted request into a denied one, and Access loses no bit.
C28_AppendAllowToNonEmptyKeepsGrant ==
    (pc = "done" /\ result.Granted /\ Aces # <<>>) =>
        LET kept(r) == r.Granted /\ result.Access \subseteq r.Access
        IN  \A ace \in AppendedAces : kept(AppendedResult(ace))

\* A request granted by the ACEs of a DACL of the greatest length, to a token
\* that is not the owner, and an appended ACE that applies to the token.
C28_Witness ==
    /\ pc = "done" /\ result.Granted /\ Len(Aces) = MaxAces
    /\ AceEvaluationRan /\ MappedRequest # {}
    /\ \E ace \in AppendedAces : AceApplies(ace) /\ AppendedResult(ace).Granted

-----------------------------------------------------------------------------
\* The SIDs NewSID decodes from the whole records of the pool.
DecodedSIDs ==
    LET sids(r) == IF r.err = NoError THEN {r.sid} ELSE {}
    IN  UNION { sids(NewSID(Buffer(d), Len(d))) : d \in SIDBuffers }

\* Two SIDs differ in revision, in an authority byte or in the sub-authorities.
SIDsDiffer(s, t) ==
    \/ s.Revision # t.Revision
    \/ s.Authority # t.Authority
    \/ s.SubAuthorities # t.SubAuthorities

\* C29: a SID decoded by NewSID and any other decoded SID that differs from it
\* in revision, in one of the 6 authority bytes or in the sub-authority
\* sequence have different canonical strings.
C29_StringInjective ==
    (pc = "done" /\ ~result.panicked /\ result.err = NoError) =>
        \A t \in DecodedSIDs : SIDsDiffer(result.sid, t) => String(result.sid) # String(t)

\* What does hold: decoded SIDs that differ in the last authority byte or in
\* the sub-authority sequence have different canonical strings.
C29_StringSeparatesPrintedFields ==
    (pc = "done" /\ ~result.panicked /\ result.err = NoError) =>
        \A t \in DecodedSIDs :
            (result.sid.Authority[6] # t.Authority[6]
             \/ result.sid.SubAuthorities # t.SubAuthorities)
                => String(result.sid) # String(t)

-----------------------------------------------------------------------------
\* C30: Build is deterministic: the string a call of Build returned is the
\* only string Build can return on that builder, so a second call returns
\* the same string.
C30_BuildDeterministic ==
    pc = "built" => Build(sb) = {result.sddl}

\* What does hold: with no control flag or a single one to render, Build
\* returns one string only (the ACE strings were fixed when the ACEs were
\* added).
C30_SingleFlagBuildDeterministic ==
    (pc = "built" /\ (~sb.useFlags \/ Cardinality(formatSDFlags(sb.flags)) = 1))
        => Build(sb) = {result.sddl}

=============================================================================
